---- MODULE Spec2Model ----
(***************************************************************************)
(* Cuboid: the board engine (cuboid_manager.py), the search-tree node      *)
(* (cuboid_gamestate.py) and the UCT-MCTS engine (cuboid_mcts.py).         *)
(***************************************************************************)
EXTENDS Integers, Sequences, FiniteSets, TLC

(* ------------------------------------------------------------------ *)
(* Board configuration (constructor arguments of Board) and bounds     *)
(* ------------------------------------------------------------------ *)
\* the arguments of Board.__init__ (the defaults of the program are 10, 10, 16
\* and 300): the Board of the search tree is Board(MAX_X, MAX_Y, MAX_PIECE, MAX_N)
MAX_X == 2
MAX_Y == 2
MAX_PIECE == 1
MAX_N == 3
\* the board specification also explores Board(MAX_X, MAX_Y, MorePieces, MoreMoves)
MorePieces == 2
MoreMoves == 5
\* longest move history explored by the board specification
MaxHist == 6

\* range(self.__MAX_PIECE * 4)
NB(b) == b.max_piece * 4
Blocks(b) == 0 .. (NB(b) - 1)
Dirs6 == 0 .. 5

\* cuboid_manager.py constants
DIRECTION == << <<1, 0, 0>>, <<0, 1, 0>>, <<0, 0, 1>> >>
TOUCH == << <<0, -1, 0>>, <<1, 0, 0>>, <<0, 1, 0>>, <<-1, 0, 0>>, <<0, 0, 1>>, <<0, 0, -1>> >>
TOUCH_INV == [j \in Dirs6 |-> CASE j = 0 -> 2 [] j = 1 -> 3 [] j = 2 -> 0
                                [] j = 3 -> 1 [] j = 4 -> 5 [] j = 5 -> 4]

\* the "unplaced" sentinel [-1, -1, -1]
NoBlock == <<-1, -1, -1>>
\* an empty adjacency row [-1] * 6
NoTouch == [j \in Dirs6 |-> -1]

\* judge() results: a player id 0 / 1, -1 for a draw, None for undetermined
DRAW == -1
NONE == 2

Vadd(a, b) == <<a[1] + b[1], a[2] + b[2], a[3] + b[3]>>

\* Move(player, x, y, dir, is_get, is_pass, value)
Move(p, x, y, d, g) ==
    [player |-> p, x |-> x, y |-> y, dir |-> d, is_get |-> g, is_pass |-> FALSE, value |-> 0]

\* Board.__init__: the empty board
Board(max_x, max_y, max_piece, max_n) ==
    [max_x |-> max_x, max_y |-> max_y, max_piece |-> max_piece, max_n |-> max_n,
     block_xyz |-> [i \in 0 .. (max_piece * 4 - 1) |-> NoBlock],
     max_z |-> [y \in 0 .. (max_y - 1) |-> [x \in 0 .. (max_x - 1) |-> 0]],
     touch |-> [i \in 0 .. (max_piece * 4 - 1) |-> NoTouch],
     move_history |-> << >>,
     board_n |-> 0]

\* Board() as GameState.__init__ builds it
EmptyBoard == Board(MAX_X, MAX_Y, MAX_PIECE, MAX_N)

(* ------------------------------------------------------------------ *)
(* Board.__put                                                         *)
(* ------------------------------------------------------------------ *)
\* pieces of the player whose first block is unplaced (the slice searched by .index)
FreePieces(b, p) ==
    {k \in (p * b.max_piece) .. ((p + 1) * b.max_piece - 1) : b.block_xyz[2 * k] = NoBlock}

Min(S) == CHOOSE v \in S : \A w \in S : v <= w
Max(S) == CHOOSE v \in S : \A w \in S : v >= w

Last(s) == s[Len(s)]
ButLast(s) == SubSeq(s, 1, Len(s) - 1)

\* variant of put_ok without the test that the two columns are equally high
put_ok_any_height(b, m) ==
    /\ m.player \in {0, 1}
    /\ ~m.is_pass
    /\ ~m.is_get
    /\ 0 <= m.x /\ m.x < (IF m.dir = 0 THEN b.max_x - 1 ELSE b.max_x)
    /\ 0 <= m.y /\ m.y < (IF m.dir = 1 THEN b.max_y - 1 ELSE b.max_y)
    /\ m.dir \in {0, 1, 2}
    /\ IF Len(b.move_history) = 0 THEN TRUE
       ELSE LET h == Last(b.move_history)
            IN (~h.is_get \/ (h.player = m.player /\ h.x # m.x) \/ h.y # m.y \/ h.dir # m.dir)
    /\ FreePieces(b, m.player) # {}

\* the assertions of lines 99-115 and the ValueError of .index (line 117)
put_ok(b, m) ==
    /\ m.player \in {0, 1}
    /\ ~m.is_pass
    /\ ~m.is_get
    /\ 0 <= m.x /\ m.x < (IF m.dir = 0 THEN b.max_x - 1 ELSE b.max_x)
    /\ 0 <= m.y /\ m.y < (IF m.dir = 1 THEN b.max_y - 1 ELSE b.max_y)
    /\ m.dir \in {0, 1, 2}
    /\ IF Len(b.move_history) = 0 THEN TRUE
       ELSE LET h == Last(b.move_history)
            IN (~h.is_get \/ (h.player = m.player /\ h.x # m.x) \/ h.y # m.y \/ h.dir # m.dir)
    /\ b.max_z[m.y][m.x] = b.max_z[m.y + DIRECTION[m.dir + 1][2]][m.x + DIRECTION[m.dir + 1][1]]
    /\ FreePieces(b, m.player) # {}

\* the adjacency table left by the scan of lines 133-142.  The loop visits the
\* placed blocks i in index order and, for each, the six offsets j; an entry
\* written more than once keeps its last value.  Row target (target + 1) entry j
\* is written with every placed i lying at target's (target + 1's) j-neighbour
\* cell, so it ends as the largest such i; a row of another placed block i gets
\* target (target + 1) in entry TOUCH_INV[j] when i lies at that j-neighbour cell.
put_scan(tch, xyz, target) ==
    [i \in DOMAIN xyz |->
        IF i = target \/ i = target + 1
        THEN [j \in Dirs6 |->
                LET t == Vadd(xyz[i], TOUCH[j + 1])
                    S == {a \in DOMAIN xyz : xyz[a] = t}
                IN IF S = {} THEN tch[i][j] ELSE Max(S)]
        ELSE IF xyz[i] = NoBlock THEN tch[i]
        ELSE [k \in Dirs6 |->
                IF Vadd(xyz[target + 1], TOUCH[TOUCH_INV[k] + 1]) = xyz[i] THEN target + 1
                ELSE IF Vadd(xyz[target], TOUCH[TOUCH_INV[k] + 1]) = xyz[i] THEN target
                ELSE tch[i][k]]]

put_target(b, m) == 2 * Min(FreePieces(b, m.player))

put(b, m) ==
    LET target == put_target(b, m)
        xyz1 == <<m.x, m.y, b.max_z[m.y][m.x]>>
        mz1 == [b.max_z EXCEPT ![xyz1[2]][xyz1[1]] = @ + 1]
        xyz2 == Vadd(xyz1, DIRECTION[m.dir + 1])
        mz2 == [mz1 EXCEPT ![xyz2[2]][xyz2[1]] = @ + 1]
        xyz == [b.block_xyz EXCEPT ![target] = xyz1, ![target + 1] = xyz2]
    IN [b EXCEPT !.block_xyz = xyz,
                 !.max_z = mz2,
                 !.touch = put_scan(b.touch, xyz, target)]

(* ------------------------------------------------------------------ *)
(* Board.__get                                                         *)
(* ------------------------------------------------------------------ *)
\* pieces matched by the search loop of lines 165-171
get_matches(b, m) ==
    {k \in (m.player * b.max_piece) .. ((m.player + 1) * b.max_piece - 1) :
        /\ <<b.block_xyz[2 * k][1], b.block_xyz[2 * k][2]>> = <<m.x, m.y>>
        /\ \/ (m.dir = 2 /\ b.block_xyz[2 * k + 1][3] = b.max_z[m.y][m.x] - 1)
           \/ (m.dir # 2 /\ b.block_xyz[2 * k][3] = b.max_z[m.y][m.x] - 1)}

get_target(b, m) == 2 * Min(get_matches(b, m))

get_ok(b, m) ==
    /\ m.player \in {0, 1}
    /\ ~m.is_pass
    /\ m.is_get
    /\ 0 <= m.x /\ m.x < (IF m.dir = 0 THEN b.max_x - 1 ELSE b.max_x)
    /\ 0 <= m.y /\ m.y < (IF m.dir = 1 THEN b.max_y - 1 ELSE b.max_y)
    /\ m.dir \in {0, 1, 2}
    /\ get_matches(b, m) # {}
    /\ LET t == get_target(b, m)
       IN /\ <<b.block_xyz[t][1], b.block_xyz[t][2]>> = <<m.x, m.y>>
          /\ <<b.block_xyz[t + 1][1], b.block_xyz[t + 1][2]>>
                = <<m.x + DIRECTION[m.dir + 1][1], m.y + DIRECTION[m.dir + 1][2]>>

\* variant of get_clear that empties the rows of the two blocks only
get_clear_own_rows(tch, xyz, target) ==
    [i \in DOMAIN xyz |-> IF i = target \/ i = target + 1 THEN NoTouch ELSE tch[i]]

get_clear(tch, xyz, target) ==
    [i \in DOMAIN xyz |->
        IF i = target \/ i = target + 1 THEN NoTouch
        ELSE IF xyz[i] = NoBlock THEN tch[i]
        ELSE [t \in Dirs6 |-> IF tch[i][t] = target \/ tch[i][t] = target + 1
                              THEN -1 ELSE tch[i][t]]]

\* variant of get that lowers the column of the first block only
get_one_column(b, m) ==
    LET target == get_target(b, m)
        xyz == [b.block_xyz EXCEPT ![target] = NoBlock, ![target + 1] = NoBlock]
        mz1 == [b.max_z EXCEPT ![m.y][m.x] = @ - 1]
    IN [b EXCEPT !.block_xyz = xyz,
                 !.max_z = mz1,
                 !.touch = get_clear(b.touch, xyz, target)]

get(b, m) ==
    LET target == get_target(b, m)
        xyz == [b.block_xyz EXCEPT ![target] = NoBlock, ![target + 1] = NoBlock]
        mz1 == [b.max_z EXCEPT ![m.y][m.x] = @ - 1]
        x2 == m.x + DIRECTION[m.dir + 1][1]
        y2 == m.y + DIRECTION[m.dir + 1][2]
        mz2 == [mz1 EXCEPT ![y2][x2] = @ - 1]
    IN [b EXCEPT !.block_xyz = xyz,
                 !.max_z = mz2,
                 !.touch = get_clear(b.touch, xyz, target)]

(* ------------------------------------------------------------------ *)
(* Board.move / Board.move_cancel                                      *)
(* ------------------------------------------------------------------ *)
move_ok(b, m) ==
    IF m.is_pass THEN TRUE
    ELSE IF m.is_get THEN get_ok(b, m)
    ELSE put_ok(b, m)

\* variant of move that advances the move counter on every move
move_count_all(b, m) ==
    LET b1 == IF m.is_pass THEN [b EXCEPT !.board_n = @ + 1]
              ELSE IF m.is_get THEN [get(b, m) EXCEPT !.board_n = @ + 1]
              ELSE [put(b, m) EXCEPT !.board_n = @ + 1]
    IN [b1 EXCEPT !.move_history = Append(@, m)]

move(b, m) ==
    LET b1 == IF m.is_pass THEN [b EXCEPT !.board_n = @ + 1]
              ELSE IF m.is_get THEN get(b, m)
              ELSE [put(b, m) EXCEPT !.board_n = @ + 1]
    IN [b1 EXCEPT !.move_history = Append(@, m)]

\* __put after lines 117-122: the first block placed and its column raised, the
\* coordinates of the second block assigned
put_first(b, m) ==
    LET target == put_target(b, m)
        xyz1 == <<m.x, m.y, b.max_z[m.y][m.x]>>
        xyz2 == Vadd(xyz1, DIRECTION[m.dir + 1])
    IN [b EXCEPT !.block_xyz = [@ EXCEPT ![target] = xyz1, ![target + 1] = xyz2],
                 !.max_z = [@ EXCEPT ![xyz1[2]][xyz1[1]] = @ + 1]]

\* the assertion of line 123, made after the first block was placed
put_second_ok(b, m) ==
    LET b1 == put_first(b, m)
        xyz2 == b1.block_xyz[put_target(b, m) + 1]
    IN b1.max_z[xyz2[2]][xyz2[1]] = xyz2[3]

\* move(m) for any Move: the Board it leaves behind and whether it returned
move_try(b, m) ==
    IF m.is_pass THEN [board |-> move(b, m), ok |-> TRUE]
    ELSE IF m.is_get
    THEN IF get_ok(b, m) THEN [board |-> move(b, m), ok |-> TRUE]
         ELSE [board |-> b, ok |-> FALSE]
    ELSE IF ~put_ok(b, m) THEN [board |-> b, ok |-> FALSE]
    ELSE IF ~put_second_ok(b, m) THEN [board |-> put_first(b, m), ok |-> FALSE]
    ELSE [board |-> move(b, m), ok |-> TRUE]

\* the piece number move() returns
move_piece(b, m) ==
    IF m.is_get THEN get_target(b, m) \div 2 ELSE put_target(b, m) \div 2

\* the inverse Move built by move_cancel (line 221)
inverse(m) == [m EXCEPT !.is_get = ~m.is_get]

move_cancel_ok(b) ==
    IF Len(b.move_history) = 0 THEN TRUE
    ELSE LET m == inverse(Last(b.move_history))
             b0 == [b EXCEPT !.move_history = ButLast(@)]
         IN IF m.is_pass THEN TRUE
            ELSE IF m.is_get THEN get_ok(b0, m)
            ELSE put_ok(b0, m)

\* variant of move_cancel that leaves the move counter alone
move_cancel_keep_count(b) ==
    IF Len(b.move_history) = 0 THEN b
    ELSE LET m == inverse(Last(b.move_history))
             b0 == [b EXCEPT !.move_history = ButLast(@)]
         IN IF m.is_pass THEN b0
            ELSE IF m.is_get THEN get(b0, m)
            ELSE put(b0, m)

move_cancel(b) ==
    IF Len(b.move_history) = 0 THEN b
    ELSE LET m == inverse(Last(b.move_history))
             b0 == [b EXCEPT !.move_history = ButLast(@)]
         IN IF m.is_pass THEN [b0 EXCEPT !.board_n = @ - 1]
            ELSE IF m.is_get THEN [get(b0, m) EXCEPT !.board_n = @ - 1]
            ELSE put(b0, m)

(* ------------------------------------------------------------------ *)
(* Board.__north_recursive / Board.judge                               *)
(* ------------------------------------------------------------------ *)
RECURSIVE north_recursive(_, _, _, _)
\* the loop over self.__touch[target], entry j onwards, after touch_north[target] = True
north_recursive(b, target, j, tn) ==
    IF j > 5 THEN tn
    ELSE LET i == b.touch[target][j]
         IN IF i < 0 \/ i = target
                \/ (target \div (b.max_piece * 2)) # (i \div (b.max_piece * 2))
            THEN north_recursive(b, target, j + 1, tn)
            ELSE IF ~tn[i]
                 THEN north_recursive(b, target, j + 1,
                          north_recursive(b, i, 0, [tn EXCEPT ![i] = TRUE]))
                 ELSE north_recursive(b, target, j + 1, tn)

RECURSIVE judge_north(_, _, _)
\* the loop of lines 257-259 over the list it updates
judge_north(b, target, tn) ==
    IF target >= NB(b) THEN tn
    ELSE IF tn[target]
         THEN judge_north(b, target + 1, north_recursive(b, target, 0, [tn EXCEPT ![target] = TRUE]))
         ELSE judge_north(b, target + 1, tn)

\* variant of judge that tests the ceiling before the connection
judge_ceiling_first(b) ==
    LET tn0 == [i \in Blocks(b) |-> b.block_xyz[i][2] = 0 /\ b.block_xyz[i][3] = 0]
        ts == [i \in Blocks(b) |-> b.block_xyz[i][2] = b.max_y - 1 /\ b.block_xyz[i][3] = 0]
        tn == judge_north(b, 0, tn0)
        both == {i \in Blocks(b) : tn[i] /\ ts[i]}
    IN IF b.board_n >= b.max_n THEN DRAW
       ELSE IF both # {} THEN Min(both) \div (b.max_piece * 2)
       ELSE NONE

\* variant of judge that reports the draw one move after the ceiling
judge_late_draw(b) ==
    LET tn0 == [i \in Blocks(b) |-> b.block_xyz[i][2] = 0 /\ b.block_xyz[i][3] = 0]
        ts == [i \in Blocks(b) |-> b.block_xyz[i][2] = b.max_y - 1 /\ b.block_xyz[i][3] = 0]
        tn == judge_north(b, 0, tn0)
        both == {i \in Blocks(b) : tn[i] /\ ts[i]}
    IN IF both # {} THEN Min(both) \div (b.max_piece * 2)
       ELSE IF b.board_n > b.max_n THEN DRAW
       ELSE NONE

judge(b) ==
    LET tn0 == [i \in Blocks(b) |-> b.block_xyz[i][2] = 0 /\ b.block_xyz[i][3] = 0]
        ts == [i \in Blocks(b) |-> b.block_xyz[i][2] = b.max_y - 1 /\ b.block_xyz[i][3] = 0]
        tn == judge_north(b, 0, tn0)
        both == {i \in Blocks(b) : tn[i] /\ ts[i]}
    IN IF both # {} THEN Min(both) \div (b.max_piece * 2)
       ELSE IF b.board_n >= b.max_n THEN DRAW
       ELSE NONE

(* ------------------------------------------------------------------ *)
(* Board.get_legal_move (calc_value = False)                           *)
(* ------------------------------------------------------------------ *)
\* variant of legal_player in which the players always alternate
legal_player_alternate(b) ==
    IF Len(b.move_history) = 0 THEN 0
    ELSE (Last(b.move_history).player + 1) % 2

legal_player(b) ==
    IF Len(b.move_history) = 0 THEN 0
    ELSE IF Last(b.move_history).is_get THEN Last(b.move_history).player
    ELSE (Last(b.move_history).player + 1) % 2

legal_is_get(b) ==
    IF Len(b.move_history) = 0 THEN FALSE
    ELSE IF Last(b.move_history).is_get THEN FALSE
    ELSE FreePieces(b, legal_player(b)) = {}

\* variant of legal_get_of that tests the column of the first block only
legal_get_of_first_column(b, player, k) ==
    LET b1 == b.block_xyz[2 * k]
        b2 == b.block_xyz[2 * k + 1]
    IN IF <<b1[1], b1[2]>> = <<b2[1], b2[2]>> /\ b2[3] = b.max_z[b2[2]][b2[1]] - 1
       THEN {Move(player, b1[1], b1[2], 2, TRUE)}
       ELSE IF b1[3] = b.max_z[b1[2]][b1[1]] - 1
            THEN IF b1[2] = b2[2]
                 THEN {Move(player, b1[1], b1[2], 0, TRUE)}
                 ELSE {Move(player, b1[1], b1[2], 1, TRUE)}
            ELSE {}

\* the retrieval branch, lines 395-410: at most one Move per piece of the mover
legal_get_of(b, player, k) ==
    LET b1 == b.block_xyz[2 * k]
        b2 == b.block_xyz[2 * k + 1]
    IN IF <<b1[1], b1[2]>> = <<b2[1], b2[2]>> /\ b2[3] = b.max_z[b2[2]][b2[1]] - 1
       THEN {Move(player, b1[1], b1[2], 2, TRUE)}
       ELSE IF b1[3] = b.max_z[b1[2]][b1[1]] - 1 /\ b1[3] = b.max_z[b2[2]][b2[1]] - 1
            THEN IF b1[2] = b2[2]
                 THEN {Move(player, b1[1], b1[2], 0, TRUE)}
                 ELSE {Move(player, b1[1], b1[2], 1, TRUE)}
            ELSE {}

legal_gets(b, player) ==
    UNION {legal_get_of(b, player, k) : k \in (player * b.max_piece) .. ((player + 1) * b.max_piece - 1)}

Xs(b) == 0 .. (b.max_x - 1)
Ys(b) == 0 .. (b.max_y - 1)

\* z0_xy of lines 415-426: empty columns next to an occupied column
z0_xy(b) ==
    {c \in Xs(b) \X Ys(b) :
        /\ b.max_z[c[2]][c[1]] = 0
        /\ \/ (c[1] + 1 \in Xs(b) /\ b.max_z[c[2]][c[1] + 1] > 0)
           \/ (c[1] - 1 \in Xs(b) /\ b.max_z[c[2]][c[1] - 1] > 0)
           \/ (c[2] + 1 \in Ys(b) /\ b.max_z[c[2] + 1][c[1]] > 0)
           \/ (c[2] - 1 \in Ys(b) /\ b.max_z[c[2] - 1][c[1]] > 0)}

\* legal_xydir of lines 427-436 (only_touch)
legal_xydir_touch(b) ==
    UNION {
        (IF c[1] > 0 /\ b.max_z[c[2]][c[1] - 1] = 0 THEN {<<c[1] - 1, c[2], 0>>} ELSE {})
        \cup (IF c[1] < b.max_x - 1 /\ b.max_z[c[2]][c[1] + 1] = 0 THEN {<<c[1], c[2], 0>>} ELSE {})
        \cup (IF c[2] > 0 /\ b.max_z[c[2] - 1][c[1]] = 0 THEN {<<c[1], c[2] - 1, 1>>} ELSE {})
        \cup (IF c[2] < b.max_y - 1 /\ b.max_z[c[2] + 1][c[1]] = 0 THEN {<<c[1], c[2], 1>>} ELSE {})
        \cup {<<c[1], c[2], 2>>}
        : c \in z0_xy(b)}

\* variant of legal_xydir_all whose scan of x starts at 1
legal_xydir_all_from_one(b) ==
    {t \in (Xs(b) \ {0}) \X Ys(b) \X {0, 1, 2} :
        \/ (t[3] = 0 /\ t[1] < b.max_x - 1 /\ b.max_z[t[2]][t[1]] = b.max_z[t[2]][t[1] + 1])
        \/ (t[3] = 1 /\ t[2] < b.max_y - 1 /\ b.max_z[t[2]][t[1]] = b.max_z[t[2] + 1][t[1]])
        \/ t[3] = 2}

\* variant of legal_xydir_all that does not compare the heights of the two columns
legal_xydir_all_any_height(b) ==
    {t \in Xs(b) \X Ys(b) \X {0, 1, 2} :
        \/ (t[3] = 0 /\ t[1] < b.max_x - 1)
        \/ (t[3] = 1 /\ t[2] < b.max_y - 1)
        \/ t[3] = 2}

\* legal_xydir of lines 438-447
legal_xydir_all(b) ==
    {t \in Xs(b) \X Ys(b) \X {0, 1, 2} :
        \/ (t[3] = 0 /\ t[1] < b.max_x - 1 /\ b.max_z[t[2]][t[1]] = b.max_z[t[2]][t[1] + 1])
        \/ (t[3] = 1 /\ t[2] < b.max_y - 1 /\ b.max_z[t[2]][t[1]] = b.max_z[t[2] + 1][t[1]])
        \/ t[3] = 2}

\* lines 449-451: drop the (x, y, dir) of an immediately preceding get
\* variant of legal_xydir that keeps the cell a retrieval just vacated
legal_xydir_keep_vacated(b, only_touch) ==
    IF only_touch THEN legal_xydir_touch(b) ELSE legal_xydir_all(b)

legal_xydir(b, only_touch) ==
    LET s == IF only_touch THEN legal_xydir_touch(b) ELSE legal_xydir_all(b)
    IN IF Len(b.move_history) > 0 /\ Last(b.move_history).is_get
       THEN s \ {<<Last(b.move_history).x, Last(b.move_history).y, Last(b.move_history).dir>>}
       ELSE s

get_legal_move(b, only_touch) ==
    IF legal_is_get(b) THEN legal_gets(b, legal_player(b))
    ELSE {Move(legal_player(b), t[1], t[2], t[3], FALSE) : t \in legal_xydir(b, only_touch)}

(* ------------------------------------------------------------------ *)
(* Board.__calc_value and get_legal_move(calc_value = True)            *)
(* ------------------------------------------------------------------ *)
Abs(v) == IF v < 0 THEN -v ELSE v

Manhattan(a, c) == Abs(a[1] - c[1]) + Abs(a[2] - c[2]) + Abs(a[3] - c[3])

\* val_dir tables of lines 284 and 294
GET_DIR_SCORE == <<5, 1, 10>>
PUT_DIR_SCORE == <<3, 5, 1>>
\* touch_score of lines 332-334
TOUCH_SCORE == << <<4, 0, 1, 2, 0, 0, 4, 2, 1, 0, 0, 0>>,
                  <<10, 2, 0, 2, 0, 0, 0, 1, 3, 1, 0, 0>>,
                  <<3, 1, 1, 1, 0, 0, 1, 1, 1, 1, 0, 0>> >>

\* the retrieval branch, lines 281-290: [value, board left behind, raised]
calc_value_get(b, m) ==
    IF ~move_ok(b, m) THEN [value |-> 0, board |-> b, ok |-> FALSE]
    ELSE LET piece == move_piece(b, m) * 2
             b1 == move(b, m)
         IN IF ~move_cancel_ok(b1) THEN [value |-> 0, board |-> b1, ok |-> FALSE]
            ELSE LET b2 == move_cancel(b1)
                     val_touch == Cardinality({j \in 0 .. 3 : b2.touch[piece][j] = -1})
                                  + Cardinality({j \in 0 .. 3 : b2.touch[piece + 1][j] = -1})
                 IN [value |-> GET_DIR_SCORE[m.dir + 1] + val_touch * 2,
                     board |-> b2, ok |-> TRUE]

\* lines 301-324: blocks the distance loop does not skip
manhattan_blocks(b1, m, piece) ==
    {i \in Blocks(b1) : /\ b1.block_xyz[i] # NoBlock
                    /\ i # piece /\ i # piece + 1
                    /\ i % b1.max_piece = m.player}

val_manhattan(b1, m, piece) ==
    LET bs == manhattan_blocks(b1, m, piece)
        d0 == {Manhattan(b1.block_xyz[piece], b1.block_xyz[i]) : i \in bs}
        d1 == {Manhattan(b1.block_xyz[piece + 1], b1.block_xyz[i]) : i \in bs}
    IN (IF d0 # {} /\ Min(d0) = 3 THEN 2 ELSE 0) + (IF d1 # {} /\ Min(d1) = 3 THEN 2 ELSE 0)

\* lines 335-345
val_touch_put(b1, m, piece) ==
    LET t0 == b1.touch[piece]
        t1 == b1.touch[piece + 1]
        sc == TOUCH_SCORE[m.dir + 1]
        tally(k) == (IF t0[k] # -1 THEN sc[k + 1] ELSE 0) + (IF t1[k] # -1 THEN sc[k + 7] ELSE 0)
        base == tally(0) + tally(1) + tally(2) + tally(3) + tally(4) + tally(5)
        same(k) == (t0[k] \div 2) = (t1[k] \div 2) /\ (t1[k] \div 2) = m.player
    IN base - (IF m.dir = 0 /\ same(0) THEN 4
               ELSE IF m.dir = 0 /\ same(2) THEN 4
               ELSE IF m.dir = 1 /\ same(1) THEN 2
               ELSE IF m.dir = 1 /\ same(3) THEN 2
               ELSE 0)

\* variant of opp_probe that leaves the opponent's piece on the board
opp_probe_no_cancel(b2, m) ==
    LET om == Move((m.player + 1) % 2, m.x, m.y, m.dir, FALSE)
    IN IF ~move_ok(b2, om) THEN [reach |-> 0, board |-> b2]
       ELSE LET b3 == move(b2, om)
            IN [reach |-> IF judge(b3) # NONE THEN 1 ELSE 0, board |-> b3]

\* lines 353-358: the probe of the opponent's move at the same place, under try / except
opp_probe(b2, m) ==
    LET om == Move((m.player + 1) % 2, m.x, m.y, m.dir, FALSE)
    IN IF ~move_ok(b2, om) THEN [reach |-> 0, board |-> b2]
       ELSE LET b3 == move(b2, om)
                r == IF judge(b3) # NONE THEN 1 ELSE 0
            IN IF move_cancel_ok(b3) THEN [reach |-> r, board |-> move_cancel(b3)]
               ELSE [reach |-> r, board |-> [b3 EXCEPT !.move_history = ButLast(@)]]

\* the placement branch, lines 292-364
calc_value_put(b, m) ==
    IF ~move_ok(b, m) THEN [value |-> 0, board |-> b, ok |-> FALSE]
    ELSE LET piece == move_piece(b, m) * 2
             b1 == move(b, m)
             val_dir == PUT_DIR_SCORE[m.dir + 1]
             val_even == IF m.x + (m.y % 2) = 0 THEN 1 ELSE 0
             val_edge == (IF b1.block_xyz[piece][2] = 0 /\ b1.block_xyz[piece][3] = 0 THEN 1 ELSE 0)
                         + (IF b1.block_xyz[piece + 1][2] = b.max_y - 1
                               /\ b1.block_xyz[piece + 1][3] = 0 THEN 1 ELSE 0)
             reach1 == IF judge(b1) # NONE THEN 1 ELSE 0
         IN IF ~move_cancel_ok(b1) THEN [value |-> 0, board |-> b1, ok |-> FALSE]
            ELSE LET b2 == move_cancel(b1)
                     pr == opp_probe(b2, m)
                 IN [value |-> val_dir * 2 + val_edge + val_touch_put(b1, m, piece) * 4
                               + val_even + val_manhattan(b1, m, piece)
                               + (reach1 + pr.reach) * 10000,
                     board |-> pr.board, ok |-> TRUE]

calc_value(b, m) ==
    IF m.is_pass THEN [value |-> m.value, board |-> b, ok |-> TRUE]
    ELSE IF m.is_get THEN calc_value_get(b, m)
    ELSE calc_value_put(b, m)

\* get_legal_move(calc_value = True): __calc_value mapped over the legal moves
calc_all(b, only_touch) == [m \in get_legal_move(b, only_touch) |-> calc_value(b, m)]

\* the moves returned, with their values
valued_of(cv) == {[m EXCEPT !.value = cv[m].value] : m \in DOMAIN cv}

\* TRUE iff no __calc_value call raised
ok_of(cv) == \A m \in DOMAIN cv : cv[m].ok

\* the board the calls leave behind
board_of(cv, b) ==
    LET changed == {cv[m].board : m \in DOMAIN cv} \ {b}
    IN IF changed = {} THEN b ELSE CHOOSE c \in changed : TRUE

valued_legal_move(b, only_touch) == valued_of(calc_all(b, only_touch))

valued_legal_ok(b, only_touch) == ok_of(calc_all(b, only_touch))

valued_legal_board(b, only_touch) == board_of(calc_all(b, only_touch), b)

(* ------------------------------------------------------------------ *)
(* GameState (cuboid_gamestate.py)                                     *)
(* ------------------------------------------------------------------ *)
\* the tree is an arena: node ids 1 .. Len(nodes); parent 0 is None.
\* The board slot of a node is "Board" (the Board object the root created) or "None".
NoMove == [player |-> -1, x |-> -1, y |-> -1, dir |-> -1,
           is_get |-> FALSE, is_pass |-> FALSE, value |-> 0]

\* variant of GameState that gives every node the depth 0
GameState_depth_zero(nds, m, parent) ==
    [parent |-> parent,
     children |-> << >>,
     move_data |-> m,
     playout_result |-> <<0, 0, 0>>,
     board |-> IF parent = 0 THEN "Board" ELSE "None",
     confirmed |-> (parent = 0),
     n_state |-> 0]

\* variant of GameState whose nodes are all created confirmed
GameState_born_confirmed(nds, m, parent) ==
    [parent |-> parent,
     children |-> << >>,
     move_data |-> m,
     playout_result |-> <<0, 0, 0>>,
     board |-> IF parent = 0 THEN "Board" ELSE "None",
     confirmed |-> TRUE,
     n_state |-> IF parent = 0 THEN 0 ELSE nds[parent].n_state + 1]

\* GameState.__init__(move, parent)
GameState(nds, m, parent) ==
    [parent |-> parent,
     children |-> << >>,
     move_data |-> m,
     playout_result |-> <<0, 0, 0>>,
     board |-> IF parent = 0 THEN "Board" ELSE "None",
     confirmed |-> (parent = 0),
     n_state |-> IF parent = 0 THEN 0 ELSE nds[parent].n_state + 1]

is_leaf(nds, s) == Len(nds[s].children) = 0

RECURSIVE TopSeqsFirst(_, _)
\* variant of TopSeqs that keeps the first k elements of the sorted list
TopSeqsFirst(L, k) ==
    IF k = 0 \/ L = {} THEN {<< >>}
    ELSE UNION {{<<m>> \o c : c \in TopSeqsFirst(L \ {m}, k - 1)} :
                    m \in {m \in L : \A o \in L : o.value >= m.value}}

RECURSIVE TopSeqs(_, _)
\* the last k elements of a shuffled, then stably sorted (by value) list of L:
\* every ascending sequence of the k best, ties in any order
TopSeqs(L, k) ==
    IF k = 0 \/ L = {} THEN {<< >>}
    ELSE UNION {{Append(c, m) : c \in TopSeqs(L \ {m}, k - 1)} :
                    m \in {m \in L : \A o \in L : o.value <= m.value}}

\* variant of gen_children that creates every child twice
gen_children_twice(nds, s, c) ==
    LET n0 == Len(nds)
        cc == c \o c
        withKids == [nds EXCEPT ![s].children = [i \in 1 .. Len(cc) |-> n0 + i]]
    IN withKids \o [i \in 1 .. Len(cc) |-> GameState(nds, cc[i], s)]

\* gen_children: nodes after the children carrying moves c were created under s
gen_children(nds, s, c) ==
    LET n0 == Len(nds)
        withKids == [nds EXCEPT ![s].children = [i \in 1 .. Len(c) |-> n0 + i]]
    IN withKids \o [i \in 1 .. Len(c) |-> GameState(nds, c[i], s)]

\* variant of same_move that also compares the heuristic value
same_move_with_value(m, cm) ==
    /\ <<m.x, m.y, m.dir>> = <<cm.x, cm.y, cm.dir>>
    /\ m.player = cm.player
    /\ m.is_get = cm.is_get
    /\ m.is_pass = cm.is_pass
    /\ m.value = cm.value

\* variant of same_move that does not compare the player
same_move_any_player(m, cm) ==
    /\ <<m.x, m.y, m.dir>> = <<cm.x, cm.y, cm.dir>>
    /\ m.is_get = cm.is_get
    /\ m.is_pass = cm.is_pass

\* Move matching of select_child_move: value is not compared
same_move(m, cm) ==
    /\ <<m.x, m.y, m.dir>> = <<cm.x, cm.y, cm.dir>>
    /\ m.player = cm.player
    /\ m.is_get = cm.is_get
    /\ m.is_pass = cm.is_pass

\* variant of hand_over in which the giving node keeps its reference
hand_over_keep(nds, a, c) == [nds EXCEPT ![c].board = nds[a].board]

\* the handing over of the board from node a to node c
hand_over(nds, a, c) == [nds EXCEPT ![c].board = nds[a].board, ![a].board = "None"]

\* variant of apply_playout_result that adds the playout count only
apply_playout_result_count_only(nds, s, r) ==
    [nds EXCEPT ![s].playout_result = <<@[1] + r[1], @[2], @[3]>>]

apply_playout_result(nds, s, r) ==
    [nds EXCEPT ![s].playout_result = <<@[1] + r[1], @[2] + r[2], @[3] + r[3]>>]

RECURSIVE SumN(_, _)
\* f[1] + ... + f[n]
SumN(f, n) == IF n = 0 THEN 0 ELSE f[n] + SumN(f, n - 1)

\* floor(ln(t) * 10^8), t = 1 .. 10 (math.log of line 164)
LN == <<0, 69314718, 109861228, 138629436, 160943791, 179175946, 194591014,
        207944154, 219722457, 230258509>>

RECURSIVE isqrt_bisect(_, _, _)
\* the integer r with lo <= r < hi and r * r <= v < (r + 1) * (r + 1)
isqrt_bisect(v, lo, hi) ==
    IF hi - lo <= 1 THEN lo
    ELSE LET mid == (lo + hi) \div 2
         IN IF mid * mid <= v THEN isqrt_bisect(v, mid, hi) ELSE isqrt_bisect(v, lo, mid)

ISqrt(v) == isqrt_bisect(v, 0, 32768)

\* calc_UCB1 in units of 10^-4: floor(10^4 * w / n) + floor(10^4 * sqrt(2 ln(t) / n))
calc_UCB1(nds, c) ==
    IF nds[c].playout_result[1] = 0 THEN 0
    ELSE LET n == nds[c].playout_result[1]
             w == nds[c].playout_result[nds[c].move_data.player + 2]
             sib == nds[nds[c].parent].children
             t == SumN([i \in 1 .. Len(sib) |-> nds[sib[i]].playout_result[1]], Len(sib))
         IN (w * 10000) \div n + ISqrt((2 * LN[t]) \div n)

(* ------------------------------------------------------------------ *)
(* UCT_MCTS (cuboid_mcts.py)                                           *)
(* ------------------------------------------------------------------ *)
\* the program's values are 4, 9 and 30
N_CHILD == 3
EXPAND_THRESHOLD == 1
PLAYOUT_STOP == 0
\* number of do_mcts calls and of decide / decide_manually calls explored
MaxIter == 4
MaxDecide == 2

\* the board move_cancel leaves behind when the inverse move is rejected
move_cancel_raise(b) == [b EXCEPT !.move_history = ButLast(@)]

RECURSIVE cancel_n_one_less(_, _)
\* variant of cancel_n that undoes one move fewer than were played
cancel_n_one_less(b, n) ==
    IF n <= 1 THEN [board |-> b, ok |-> TRUE]
    ELSE IF ~move_cancel_ok(b) THEN [board |-> move_cancel_raise(b), ok |-> FALSE]
    ELSE cancel_n_one_less(move_cancel(b), n - 1)

RECURSIVE cancel_n(_, _)
\* n times move_cancel (lines 161-162)
cancel_n(b, n) ==
    IF n = 0 THEN [board |-> b, ok |-> TRUE]
    ELSE IF ~move_cancel_ok(b) THEN [board |-> move_cancel_raise(b), ok |-> FALSE]
    ELSE cancel_n(move_cancel(b), n - 1)

\* lines 160-163: undo the playout's moves and return result
playout_end(b, start, res, bound) ==
    LET c == cancel_n(b, Len(b.move_history) - start)
    IN IF ~c.ok THEN [board |-> c.board, result |-> res, err |-> "IllegalMove", last |-> b]
       ELSE IF ~bound THEN [board |-> c.board, result |-> res, err |-> "UnboundLocalError", last |-> b]
       ELSE [board |-> c.board, result |-> res, err |-> "", last |-> b]

RECURSIVE playout_loop(_, _, _, _)
\* __playout from the test of the while loop (line 153) on: the set of outcomes
\* over all random choices.  bound is FALSE while result is not yet assigned.
\* An outcome is the board left behind, the value of result, the exception
\* raised ("" if none) and the board as it stood when the loop ended.
playout_loop(b, start, res, bound) ==
    IF b.board_n <= b.max_n /\ Len(b.move_history) - start <= PLAYOUT_STOP
    THEN LET legals == get_legal_move(b, TRUE)
         IN IF legals = {}
            THEN {[board |-> b, result |-> res, err |-> "IndexError", last |-> b]}
            ELSE UNION {IF ~move_ok(b, m)
                        THEN {[board |-> b, result |-> res, err |-> "IllegalMove", last |-> b]}
                        ELSE LET b1 == move(b, m)
                                 r == judge(b1)
                             IN IF r # NONE THEN {playout_end(b1, start, r, TRUE)}
                                ELSE playout_loop(b1, start, r, TRUE)
                        : m \in legals}
    ELSE {playout_end(b, start, res, bound)}

playout(b) == playout_loop(b, Len(b.move_history), NONE, FALSE)

\* variant of evaluate_result with the two tallies exchanged
evaluate_result_swapped(r) == <<1, IF r = 1 THEN 1 ELSE 0, IF r = 0 THEN 1 ELSE 0>>

\* __evaluate with n = 1: (len(results), results.count(0), results.count(1))
evaluate_result(r) == <<1, IF r = 0 THEN 1 ELSE 0, IF r = 1 THEN 1 ELSE 0>>

\* variant of select_candidates without the test for an unvisited child
select_candidates_max_only(nds, s) ==
    LET ch == nds[s].children
        ucb == [i \in 1 .. Len(ch) |-> calc_UCB1(nds, ch[i])]
        ucb_max == Max({ucb[i] : i \in 1 .. Len(ch)})
    IN {i \in 1 .. Len(ch) : ucb[i] = ucb_max}

\* __select: the indices random.choice draws from (lines 88-102)
select_candidates(nds, s) ==
    LET ch == nds[s].children
        ucb == [i \in 1 .. Len(ch) |-> calc_UCB1(nds, ch[i])]
        ucb_max == Max({ucb[i] : i \in 1 .. Len(ch)})
    IN IF \E i \in 1 .. Len(ch) : ucb[i] = 0
       THEN {i \in 1 .. Len(ch) : ucb[i] = 0}
       ELSE {i \in 1 .. Len(ch) : ucb[i] = ucb_max}

\* variant of expand_cond that expands one win or loss before the threshold
expand_cond_one_short(nds, s, now) ==
    \/ nds[s].playout_result[2] + nds[s].playout_result[3] >= EXPAND_THRESHOLD - 1
    \/ s = now

\* variant of expand_cond that compares the number of playouts with the threshold
expand_cond_by_playouts(nds, s, now) ==
    \/ nds[s].playout_result[1] >= EXPAND_THRESHOLD
    \/ s = now

\* __expand: the condition of lines 110-111
expand_cond(nds, s, now) ==
    \/ nds[s].playout_result[2] + nds[s].playout_result[3] >= EXPAND_THRESHOLD
    \/ s = now

\* variant of decide_candidates without the branch for the forced-win signal
decide_candidates_no_forced(nds, now) ==
    LET ch == nds[now].children
        p == nds[ch[1]].move_data.player
        n_list == [i \in 1 .. Len(ch) |->
                      nds[ch[i]].playout_result[1] + nds[ch[i]].playout_result[p + 2]
                      - nds[ch[i]].playout_result[((p + 1) % 2) + 2]]
        v_list == [i \in 1 .. Len(ch) |-> nds[ch[i]].move_data.value]
        v_max == Max({v_list[i] : i \in 1 .. Len(ch)})
        n_max == Max({n_list[i] : i \in 1 .. Len(ch)})
    IN IF Cardinality({i \in 1 .. Len(ch) : n_list[i] = n_max}) = 1
       THEN {i \in 1 .. Len(ch) : n_list[i] = n_max}
       ELSE {i \in 1 .. Len(ch) : v_list[i] = v_max}

\* decide: the indices the decision is drawn from (lines 41-56)
decide_candidates(nds, now) ==
    LET ch == nds[now].children
        p == nds[ch[1]].move_data.player
        n_list == [i \in 1 .. Len(ch) |->
                      nds[ch[i]].playout_result[1] + nds[ch[i]].playout_result[p + 2]
                      - nds[ch[i]].playout_result[((p + 1) % 2) + 2]]
        v_list == [i \in 1 .. Len(ch) |-> nds[ch[i]].move_data.value]
        v_max == Max({v_list[i] : i \in 1 .. Len(ch)})
    IN IF v_max >= 10000
       THEN LET n_max == Max({n_list[i] : i \in {j \in 1 .. Len(ch) : v_list[j] >= 10000}})
            IN {i \in 1 .. Len(ch) : v_list[i] >= 10000 /\ n_list[i] = n_max}
       ELSE LET n_max == Max({n_list[i] : i \in 1 .. Len(ch)})
            IN IF Cardinality({i \in 1 .. Len(ch) : n_list[i] = n_max}) = 1
               THEN {i \in 1 .. Len(ch) : n_list[i] = n_max}
               ELSE {i \in 1 .. Len(ch) : v_list[i] = v_max}

\* select_child_move, lines 134-135: a new child for move cm appended to s
gen_children_append(nds, s, cm) ==
    Append([nds EXCEPT ![s].children = Append(@, Len(nds) + 1)], GameState(nds, cm, s))

\* the moves handed to decide_manually: every player, direction and kind of
\* move at the corner column (0, 0)
ManualMoves == {Move(p, 0, 0, d, g) : p \in {0, 1}, d \in {0, 1, 2}, g \in BOOLEAN}

(* ------------------------------------------------------------------ *)
(* State                                                               *)
(* ------------------------------------------------------------------ *)
VARIABLES
    board,             \* the Board object created by the root GameState
    nodes,             \* the GameState objects, in creation order
    state_now,         \* UCT_MCTS.__state_now
    state_in_process,  \* UCT_MCTS.__state_in_process
    pc,                \* position inside do_mcts, "idle" between calls
    result,            \* the playout result do_mcts hands to __backup
    err,               \* the exception that ended the program, "" if none
    n_iter,            \* do_mcts calls so far
    n_decide,          \* decide / decide_manually calls so far
    iter_base,         \* history variable: every node's playout_result when do_mcts started
    leaf,              \* history variable: the node __select and __expand left the cursor on
    playout_board,     \* history variable: the Board when the loop of __playout ended (line 160)
    decided_i          \* what the last decide / decide_manually returned: a child index
                       \* (counted from 1), 0 for None

vars == <<board, nodes, state_now, state_in_process, pc, result, err, n_iter, n_decide,
          iter_base, leaf, playout_board, decided_i>>

state_root == 1

\* an exception leaves the method: nothing else changes
Raise(e) ==
    /\ err' = e
    /\ UNCHANGED <<board, nodes, state_now, state_in_process, pc, result, n_iter, n_decide, iter_base, leaf, playout_board, decided_i>>

\* a Board and the root GameState, before any engine method ran
InitBoard ==
    /\ board \in {EmptyBoard, Board(MAX_X, MAX_Y, MorePieces, MoreMoves)}
    /\ nodes = <<GameState(<< >>, NoMove, 0)>>
    /\ state_now = state_root
    /\ state_in_process = state_root
    /\ pc = "idle"
    /\ result = <<0, 0, 0>>
    /\ err = ""
    /\ n_iter = 0
    /\ n_decide = 0
    /\ iter_base = << >>
    /\ leaf = 0
    /\ playout_board = << >>
    /\ decided_i = 0

\* UCT_MCTS.__init__: the root, then __expand on it
Init ==
    /\ LET cv == calc_all(EmptyBoard, FALSE)
       IN /\ ok_of(cv)
          /\ board = board_of(cv, EmptyBoard)
          /\ \E c \in TopSeqs(valued_of(cv), N_CHILD) :
                nodes = gen_children(<<GameState(<< >>, NoMove, 0)>>, state_root, c)
    /\ state_now = state_root
    /\ state_in_process = state_root
    /\ pc = "idle"
    /\ result = <<0, 0, 0>>
    /\ err = ""
    /\ n_iter = 0
    /\ n_decide = 0
    /\ iter_base = << >>
    /\ leaf = 0
    /\ playout_board = << >>
    /\ decided_i = 0

\* Board.move on a move that get_legal_move returned
BoardMove ==
    /\ Len(board.move_history) < MaxHist
    /\ \E m \in get_legal_move(board, TRUE) \cup get_legal_move(board, FALSE) :
          /\ move_ok(board, m)
          /\ board' = move(board, m)
    /\ UNCHANGED <<nodes, state_now, state_in_process, pc, result, err, n_iter, n_decide, iter_base, leaf, playout_board, decided_i>>

\* Board.move_cancel
BoardCancel ==
    /\ move_cancel_ok(board)
    /\ board' = move_cancel(board)
    /\ UNCHANGED <<nodes, state_now, state_in_process, pc, result, err, n_iter, n_decide, iter_base, leaf, playout_board, decided_i>>

NextBoard == BoardMove \/ BoardCancel

SpecBoard == InitBoard /\ [][NextBoard]_vars

\* Move(player, is_pass=True): a pass, with the defaults of Move.__init__
Pass(p) == [player |-> p, x |-> -1, y |-> -1, dir |-> -1,
            is_get |-> FALSE, is_pass |-> TRUE, value |-> 0]

\* Board.move on a pass of the player to move
BoardPass ==
    /\ Len(board.move_history) < MaxHist
    /\ board' = move(board, Pass(legal_player(board)))
    /\ UNCHANGED <<nodes, state_now, state_in_process, pc, result, err, n_iter, n_decide, iter_base, leaf, playout_board, decided_i>>

NextPass == BoardMove \/ BoardCancel \/ BoardPass

\* a Board under move (legal moves and passes) and move_cancel
SpecPass == InitBoard /\ [][NextPass]_vars

\* Board() with the defaults of Board.__init__
DefaultBoard == Board(10, 10, 16, 300)

\* the default Board and the root GameState, before any engine method ran
InitScenario ==
    /\ board = DefaultBoard
    /\ nodes = <<GameState(<< >>, NoMove, 0)>>
    /\ state_now = state_root
    /\ state_in_process = state_root
    /\ pc = "idle"
    /\ result = <<0, 0, 0>>
    /\ err = ""
    /\ n_iter = 0
    /\ n_decide = 0
    /\ iter_base = << >>
    /\ leaf = 0
    /\ playout_board = << >>
    /\ decided_i = 0

\* Board.move on the default Board: player 0 places a piece in direction Y,
\* then player 1 places a piece in direction Z
ScenarioMove ==
    /\ Len(board.move_history) < 2
    /\ \E m \in get_legal_move(board, FALSE) :
          /\ m.dir = (IF Len(board.move_history) = 0 THEN 1 ELSE 2)
          /\ move_ok(board, m)
          /\ board' = move(board, m)
    /\ UNCHANGED <<nodes, state_now, state_in_process, pc, result, err, n_iter, n_decide, iter_base, leaf, playout_board, decided_i>>

NextScenario == ScenarioMove \/ BoardCancel

SpecScenario == InitScenario /\ [][NextScenario]_vars

\* select_child_index(index) on node s; the cursor variable is set by the caller
SelectChildIndexOk(s, i) ==
    /\ nodes[s].board # "None"
    /\ move_ok(board, nodes[nodes[s].children[i]].move_data)

\* do_mcts, line 74
DoMcts ==
    /\ pc = "idle" /\ err = "" /\ n_iter < MaxIter
    /\ state_in_process' = state_now
    /\ pc' = "select"
    /\ n_iter' = n_iter + 1
    /\ iter_base' = [n \in 1 .. Len(nodes) |-> nodes[n].playout_result]
    /\ leaf' = 0
    /\ UNCHANGED <<board, nodes, state_now, result, err, n_decide, playout_board, decided_i>>

\* one pass of the loop of __select
Select ==
    /\ pc = "select" /\ err = ""
    /\ IF is_leaf(nodes, state_in_process)
       THEN /\ pc' = "expand"
            /\ UNCHANGED <<board, nodes, state_now, state_in_process, result, err, n_iter, n_decide, iter_base, leaf, playout_board, decided_i>>
       ELSE \E i \in select_candidates(nodes, state_in_process) :
               IF SelectChildIndexOk(state_in_process, i)
               THEN LET c == nodes[state_in_process].children[i]
                    IN /\ board' = move(board, nodes[c].move_data)
                       /\ nodes' = hand_over(nodes, state_in_process, c)
                       /\ state_in_process' = c
                       /\ UNCHANGED <<state_now, pc, result, err, n_iter, n_decide, iter_base, leaf, playout_board, decided_i>>
               ELSE Raise(IF nodes[state_in_process].board = "None" THEN "NoBoard" ELSE "IllegalMove")

\* __expand, with gen_children(N_CHILD)
Expand ==
    /\ pc = "expand" /\ err = ""
    /\ IF expand_cond(nodes, state_in_process, state_now)
       THEN IF nodes[state_in_process].board = "None"
            THEN Raise("NoBoard")
            ELSE IF ~is_leaf(nodes, state_in_process)
            THEN /\ pc' = "select"
                 /\ UNCHANGED <<board, nodes, state_now, state_in_process, result, err, n_iter, n_decide, iter_base, leaf, playout_board, decided_i>>
            ELSE LET cv == calc_all(board, FALSE)
                 IN IF ~ok_of(cv)
                    THEN Raise("IllegalMove")
                    ELSE /\ \E c \in TopSeqs(valued_of(cv), N_CHILD) :
                               nodes' = gen_children(nodes, state_in_process, c)
                         /\ board' = board_of(cv, board)
                         /\ pc' = "select"
                         /\ UNCHANGED <<state_now, state_in_process, result, err, n_iter, n_decide, iter_base, leaf, playout_board, decided_i>>
       ELSE /\ pc' = "evaluate"
            /\ leaf' = state_in_process
            /\ UNCHANGED <<board, nodes, state_now, state_in_process, result, err, n_iter, n_decide, iter_base, playout_board, decided_i>>

\* __evaluate: one __playout on the board of the node in process
Evaluate ==
    /\ pc = "evaluate" /\ err = ""
    /\ IF nodes[state_in_process].board = "None"
       THEN Raise("AttributeError")
       ELSE \E o \in playout(board) :
               /\ board' = o.board
               /\ err' = o.err
               /\ IF o.err = ""
                  THEN result' = evaluate_result(o.result) /\ pc' = "backup"
                  ELSE UNCHANGED <<result, pc>>
               /\ playout_board' = o.last
               /\ UNCHANGED <<nodes, state_now, state_in_process, n_iter, n_decide, iter_base, leaf, decided_i>>

\* one pass of the loop of __backup: apply_playout_result, then select_parent
Backup ==
    /\ pc = "backup" /\ err = ""
    /\ IF state_in_process = state_now
       THEN /\ pc' = "idle"
            /\ iter_base' = << >>
            /\ leaf' = 0
            /\ playout_board' = << >>
            /\ UNCHANGED <<board, nodes, state_now, state_in_process, result, err, n_iter, n_decide, decided_i>>
       ELSE LET s == state_in_process
                applied == apply_playout_result(nodes, s, result)
            IN IF nodes[s].board = "None"
               THEN /\ nodes' = applied
                    /\ err' = "NoBoard"
                    /\ UNCHANGED <<board, state_now, state_in_process, pc, result, n_iter, n_decide, iter_base, leaf, playout_board, decided_i>>
               ELSE IF ~move_cancel_ok(board)
               THEN /\ nodes' = applied
                    /\ board' = move_cancel_raise(board)
                    /\ err' = "IllegalMove"
                    /\ UNCHANGED <<state_now, state_in_process, pc, result, n_iter, n_decide, iter_base, leaf, playout_board, decided_i>>
               ELSE IF nodes[s].parent = 0
               THEN /\ nodes' = applied
                    /\ board' = move_cancel(board)
                    /\ err' = "AttributeError"
                    /\ UNCHANGED <<state_now, state_in_process, pc, result, n_iter, n_decide, iter_base, leaf, playout_board, decided_i>>
               ELSE /\ nodes' = hand_over(applied, s, nodes[s].parent)
                    /\ board' = move_cancel(board)
                    /\ state_in_process' = nodes[s].parent
                    /\ UNCHANGED <<state_now, pc, result, err, n_iter, n_decide, iter_base, leaf, playout_board, decided_i>>

\* decide
Decide ==
    /\ pc = "idle" /\ err = "" /\ n_decide < MaxDecide
    /\ n_decide' = n_decide + 1
    /\ state_in_process' = state_now
    /\ IF is_leaf(nodes, state_now)
       THEN /\ err' = "IndexError"
            /\ UNCHANGED <<board, nodes, state_now, pc, result, n_iter, iter_base, leaf, playout_board, decided_i>>
       ELSE \E i \in decide_candidates(nodes, state_now) :
               IF SelectChildIndexOk(state_now, i)
               THEN LET c == nodes[state_now].children[i]
                    IN /\ board' = move(board, nodes[c].move_data)
                       /\ nodes' = [hand_over(nodes, state_now, c) EXCEPT ![c].confirmed = TRUE]
                       /\ state_now' = c
                       /\ decided_i' = i
                       /\ UNCHANGED <<pc, result, err, n_iter, iter_base, leaf, playout_board>>
               ELSE /\ err' = (IF nodes[state_now].board = "None" THEN "NoBoard" ELSE "IllegalMove")
                    /\ UNCHANGED <<board, nodes, state_now, pc, result, n_iter, iter_base, leaf, playout_board, decided_i>>

\* the children of s whose move matches m, in list order
matching_children(nds, s, m) ==
    {i \in 1 .. Len(nds[s].children) : same_move(m, nds[nds[s].children[i]].move_data)}

\* decide_manually(m), with select_child_move(m)
DecideManuallyWith(m) ==
    /\ pc = "idle" /\ err = "" /\ n_decide < MaxDecide
    /\ n_decide' = n_decide + 1
    /\    LET s == state_now
              mc == matching_children(nodes, s, m)
              legals == {cm \in get_legal_move(board, FALSE) : same_move(m, cm)}
          IN IF nodes[s].board = "None"
             THEN /\ err' = "NoBoard"
                  /\ UNCHANGED <<board, nodes, state_now, state_in_process, pc, result, n_iter, iter_base, leaf, playout_board, decided_i>>
             ELSE IF mc # {}
             THEN LET c == nodes[s].children[Min(mc)]
                  IN IF move_ok(board, nodes[c].move_data)
                     THEN /\ board' = move(board, nodes[c].move_data)
                          /\ nodes' = [hand_over(nodes, s, c) EXCEPT ![c].confirmed = TRUE]
                          /\ state_now' = c
                          /\ decided_i' = 0
                          /\ UNCHANGED <<state_in_process, pc, result, err, n_iter, iter_base, leaf, playout_board>>
                     ELSE /\ err' = "IllegalMove"
                          /\ UNCHANGED <<board, nodes, state_now, state_in_process, pc, result, n_iter, iter_base, leaf, playout_board, decided_i>>
             ELSE IF legals # {}
             THEN \E cm \in legals :
                     LET c == Len(nodes) + 1
                         added == gen_children_append(nodes, s, cm)
                     IN IF move_ok(board, cm)
                        THEN /\ board' = move(board, cm)
                             /\ nodes' = [hand_over(added, s, c) EXCEPT ![c].confirmed = TRUE]
                             /\ state_now' = c
                             /\ decided_i' = 0
                             /\ UNCHANGED <<state_in_process, pc, result, err, n_iter, iter_base, leaf, playout_board>>
                        ELSE /\ nodes' = added
                             /\ err' = "IllegalMove"
                             /\ UNCHANGED <<board, state_now, state_in_process, pc, result, n_iter, iter_base, leaf, playout_board, decided_i>>
             ELSE /\ err' = "AmbiguousMove"
                  /\ UNCHANGED <<board, nodes, state_now, state_in_process, pc, result, n_iter, iter_base, leaf, playout_board, decided_i>>

\* decide_manually called with any of the moves explored
DecideManually == \E m \in ManualMoves : DecideManuallyWith(m)

Next == DoMcts \/ Select \/ Expand \/ Evaluate \/ Backup \/ Decide \/ DecideManually

Spec == Init /\ [][Next]_vars

(* ------------------------------------------------------------------ *)
(* Properties of Board (checked under SpecBoard)                       *)
(* ------------------------------------------------------------------ *)
\* the fields of a Board an observer can read, history by its length
Observable(b) == <<b.block_xyz, b.max_z, b.touch, b.board_n, Len(b.move_history)>>

LegalMoves(b) == get_legal_move(b, TRUE) \cup get_legal_move(b, FALSE)

Placed(b) == {i \in Blocks(b) : b.block_xyz[i] # NoBlock}

PlayerOf(b, i) == i \div (b.max_piece * 2)

\* C1: on every reachable board, every move get_legal_move returns is accepted,
\* can be undone, and move followed by move_cancel restores the block
\* coordinates, the column heights, the adjacency table, the move counter and
\* the history length; move_cancel on an empty history changes nothing.
C1_MoveCancelRestores ==
    /\ \A m \in LegalMoves(board) :
          /\ move_ok(board, m)
          /\ move_cancel_ok(move(board, m))
          /\ Observable(move_cancel(move(board, m))) = Observable(board)
    /\ Len(board.move_history) = 0 =>
          move_cancel_ok(board) /\ move_cancel(board) = board

\* a board in the retrieval phase on which a retrieval changes the blocks and
\* move_cancel brings them back
C1_Witness ==
    /\ legal_is_get(board)
    /\ \E m \in LegalMoves(board) :
          /\ m.is_get
          /\ move(board, m).block_xyz # board.block_xyz
          /\ move_cancel(move(board, m)).block_xyz = board.block_xyz

\* C3: the adjacency table is symmetric (A lists B in direction d iff B lists A
\* in the opposite direction), and an unplaced block has six empty entries and
\* is listed by no block.
C3_AdjacencySymmetric ==
    /\ \A a \in Blocks(board) : \A c \in Blocks(board) : \A d \in Dirs6 :
          board.touch[a][d] = c <=> board.touch[c][TOUCH_INV[d]] = a
    /\ \A a \in Blocks(board) \ Placed(board) :
          /\ board.touch[a] = NoTouch
          /\ \A c \in Blocks(board) : \A d \in Dirs6 : board.touch[c][d] # a

\* right after a retrieval: a block that stays on the board listed a block of
\* the retrieved piece and lists nothing there now
C3_Witness ==
    /\ Len(board.move_history) > 0
    /\ Last(board.move_history).is_get
    /\ \E a \in Placed(board) : \E d \in Dirs6 :
          /\ board.touch[a][d] = -1
          /\ move_cancel(board).touch[a][d] >= 0

\* the placed blocks of column (x, y)
Column(b, x, y) == {i \in Placed(b) : b.block_xyz[i][1] = x /\ b.block_xyz[i][2] = y}

\* C4: the stored height of every column is the number of placed blocks in it,
\* and these blocks fill exactly the cells z = 0 .. height - 1, one block each.
C4_ColumnHeights ==
    \A x \in Xs(board) : \A y \in Ys(board) :
        /\ board.max_z[y][x] = Cardinality(Column(board, x, y))
        /\ {board.block_xyz[i][3] : i \in Column(board, x, y)} = 0 .. (board.max_z[y][x] - 1)

\* right after a retrieval some column is still two or more blocks high
C4_Witness ==
    /\ Len(board.move_history) > 0
    /\ Last(board.move_history).is_get
    /\ \E x \in Xs(board) : \E y \in Ys(board) : board.max_z[y][x] >= 2

RECURSIVE ChainClosure(_, _)
\* the placed blocks joined to a block of S by a chain of face-adjacent blocks
\* of the same player, from the coordinates alone
ChainClosure(b, S) ==
    LET S2 == S \cup {i \in Placed(b) : \E j \in S :
                         /\ PlayerOf(b, i) = PlayerOf(b, j)
                         /\ Manhattan(b.block_xyz[i], b.block_xyz[j]) = 1}
    IN IF S2 = S THEN S ELSE ChainClosure(b, S2)

\* player p has a chain from a block with y = 0, z = 0 to one with y = max_y - 1, z = 0
Connected(b, p) ==
    LET north == {i \in Placed(b) : PlayerOf(b, i) = p /\ b.block_xyz[i][2] = 0 /\ b.block_xyz[i][3] = 0}
    IN \E i \in ChainClosure(b, north) : b.block_xyz[i][2] = b.max_y - 1 /\ b.block_xyz[i][3] = 0

\* C5: judge returns a player only if that player's blocks connect the north
\* edge to the south edge at ground level, and returns a player whenever some
\* player's blocks do, whatever the move counter.
C5_JudgeConnection ==
    /\ judge(board) \in {0, 1} => Connected(board, judge(board))
    /\ (Connected(board, 0) \/ Connected(board, 1)) => judge(board) \in {0, 1}

\* a connection reported with the move counter at the ceiling
C5_Witness ==
    /\ board.board_n = board.max_n
    /\ Connected(board, 0) \/ Connected(board, 1)
    /\ judge(board) \in {0, 1}

\* C6: without a connection judge returns draw when the move counter stands at
\* the ceiling max_n and undetermined when it is one short of it.
C6_DrawAtCeiling ==
    (~Connected(board, 0) /\ ~Connected(board, 1)) =>
        /\ board.board_n = board.max_n => judge(board) = DRAW
        /\ board.board_n = board.max_n - 1 => judge(board) = NONE

\* the ceiling reached by a placement, no player connected
C6_Witness ==
    /\ board.board_n = board.max_n
    /\ ~Last(board.move_history).is_get
    /\ ~Connected(board, 0) /\ ~Connected(board, 1)
    /\ judge(board) = DRAW
    /\ judge(move_cancel(board)) = NONE

\* C7: every move get_legal_move returns, for either value of only_touch and
\* with or without the heuristic value, passes the checks of move; computing
\* the values raises nothing.
C7_LegalMovesAccepted ==
    \A ot \in BOOLEAN :
        /\ \A m \in get_legal_move(board, ot) : move_ok(board, m)
        /\ valued_legal_ok(board, ot)
        /\ \A m \in valued_legal_move(board, ot) : move_ok(board, m)

\* placements offered right after a retrieval, where the vacated cell is barred
C7_Witness ==
    /\ Len(board.move_history) > 0
    /\ Last(board.move_history).is_get
    /\ get_legal_move(board, TRUE) # {}
    /\ get_legal_move(board, FALSE) # get_legal_move(board, TRUE)

\* the Moves handed to move(): players -1 .. 2, coordinates from one column
\* outside the board to one column outside on the other side, every direction,
\* placements and retrievals
AnyMoves(b) ==
    {Move(p, x, y, d, g) : p \in -1 .. 2, x \in -1 .. b.max_x, y \in -1 .. b.max_y,
                           d \in {0, 1, 2}, g \in BOOLEAN}

BadPlayer(m) == m.player \notin {0, 1}

\* x or y outside the board for the direction of m
OffBoard(b, m) ==
    \/ m.x < 0 \/ m.x > (IF m.dir = 0 THEN b.max_x - 2 ELSE b.max_x - 1)
    \/ m.y < 0 \/ m.y > (IF m.dir = 1 THEN b.max_y - 2 ELSE b.max_y - 1)

\* a placement on the board whose two target columns differ in height
Floats(b, m) ==
    /\ ~m.is_get
    /\ ~OffBoard(b, m)
    /\ b.max_z[m.y][m.x] # b.max_z[m.y + DIRECTION[m.dir + 1][2]][m.x + DIRECTION[m.dir + 1][1]]

\* m names the x, y and direction of the retrieval made just before
Retargets(b, m) ==
    /\ Len(b.move_history) > 0
    /\ Last(b.move_history).is_get
    /\ <<m.x, m.y, m.dir>> = <<Last(b.move_history).x, Last(b.move_history).y, Last(b.move_history).dir>>

\* move(m) raises and leaves the Board as it was
Rejected(b, m) == ~move_try(b, m).ok /\ move_try(b, m).board = b

HasUnplaced(b, p) ==
    \E k \in (p * b.max_piece) .. ((p + 1) * b.max_piece - 1) :
        b.block_xyz[2 * k] = NoBlock /\ b.block_xyz[2 * k + 1] = NoBlock

\* C23: get_legal_move infers mover and phase from the board: player 0 places
\* on an empty history; after a retrieval the same player places; otherwise
\* the other player moves, retrieving when no piece of theirs is unplaced and
\* placing when one is.  One list has one player and one isGet.
C23_MoverAndPhase ==
    \A ot \in BOOLEAN :
        LET L == get_legal_move(board, ot)
            h == board.move_history
        IN /\ \A m1, m2 \in L : m1.player = m2.player /\ m1.is_get = m2.is_get
           /\ \A m \in L :
                 /\ ~m.is_pass
                 /\ Len(h) = 0 => m.player = 0 /\ ~m.is_get
                 /\ (Len(h) > 0 /\ Last(h).is_get) =>
                        m.player = Last(h).player /\ ~m.is_get
                 /\ (Len(h) > 0 /\ ~Last(h).is_get) =>
                        /\ m.player = 1 - Last(h).player
                        /\ m.is_get = ~HasUnplaced(board, m.player)

\* the last move was a retrieval and the same player has placements to choose from
C23_Witness ==
    /\ Len(board.move_history) > 1
    /\ Last(board.move_history).is_get
    /\ get_legal_move(board, TRUE) # {}
    /\ \E m \in get_legal_move(board, FALSE) :
          m.player = Last(board.move_history).player /\ ~m.is_get

\* the board is in the placement phase: nothing played yet, a retrieval just
\* made, or the player to move has an unplaced piece
PlacementPhase(b) ==
    \/ Len(b.move_history) = 0
    \/ Last(b.move_history).is_get
    \/ HasUnplaced(b, 1 - Last(b.move_history).player)

\* number of blocks standing in column (x, y)
Height(b, x, y) == Cardinality(Column(b, x, y))

\* the (x, y, direction) on the board whose two columns are equally high,
\* without the one an immediately preceding retrieval vacated
Placeable(b) ==
    {t \in Xs(b) \X Ys(b) \X {0, 1, 2} :
        LET x2 == t[1] + DIRECTION[t[3] + 1][1]
            y2 == t[2] + DIRECTION[t[3] + 1][2]
        IN /\ x2 \in Xs(b) /\ y2 \in Ys(b)
           /\ Height(b, t[1], t[2]) = Height(b, x2, y2)
           /\ ~(/\ Len(b.move_history) > 0
                /\ Last(b.move_history).is_get
                /\ t = <<Last(b.move_history).x, Last(b.move_history).y,
                         Last(b.move_history).dir>>)}

\* C24: in the placement phase get_legal_move(only_touch = False) returns one
\* move for each (x, y, direction) on the board with two equally high target
\* columns, except the (x, y, direction) of an immediately preceding retrieval,
\* and nothing else.
C24_PlacementsEnumerated ==
    PlacementPhase(board) =>
        LET L == get_legal_move(board, FALSE)
        IN /\ {<<m.x, m.y, m.dir>> : m \in L} = Placeable(board)
           /\ Cardinality(L) = Cardinality(Placeable(board))
           /\ \A m \in L : ~m.is_get /\ ~m.is_pass

\* a retrieval was just made, its place would otherwise be placeable, and
\* some column pairs differ in height
C24_Witness ==
    /\ Len(board.move_history) > 0
    /\ Last(board.move_history).is_get
    /\ LET h == Last(board.move_history)
           x2 == h.x + DIRECTION[h.dir + 1][1]
           y2 == h.y + DIRECTION[h.dir + 1][2]
       IN Height(board, h.x, h.y) = Height(board, x2, y2)
    /\ \E x \in Xs(board) : \E y \in Ys(board) :
          x + 1 \in Xs(board) /\ Height(board, x, y) # Height(board, x + 1, y)
    /\ get_legal_move(board, FALSE) # {}

\* the board is in the retrieval phase: the last move was not a retrieval and
\* the player to move has no unplaced piece
RetrievalPhase(b) ==
    /\ Len(b.move_history) > 0
    /\ ~Last(b.move_history).is_get
    /\ ~HasUnplaced(b, 1 - Last(b.move_history).player)

\* the pieces of player p
PiecesOf(b, p) == (p * b.max_piece) .. ((p + 1) * b.max_piece - 1)

\* a block of another piece rests on block i
Covered(b, i) ==
    \E j \in Placed(b) :
        /\ j \div 2 # i \div 2
        /\ b.block_xyz[j] = Vadd(b.block_xyz[i], <<0, 0, 1>>)

\* piece k is on the board with no block of another piece on either of its blocks
Exposed(b, k) ==
    /\ {2 * k, 2 * k + 1} \subseteq Placed(b)
    /\ ~Covered(b, 2 * k)
    /\ ~Covered(b, 2 * k + 1)

\* the direction of the placed piece k, read from its two blocks
DirOf(b, k) ==
    CHOOSE d \in {0, 1, 2} : b.block_xyz[2 * k + 1] = Vadd(b.block_xyz[2 * k], DIRECTION[d + 1])

\* the retrieval of piece k by player p
RetrievalOf(b, p, k) ==
    Move(p, b.block_xyz[2 * k][1], b.block_xyz[2 * k][2], DirOf(b, k), TRUE)

\* C25: in the retrieval phase get_legal_move returns one retrieval for each
\* piece of the mover with no block resting on either of its blocks, with the
\* x, y of the piece's first block and the piece's direction, and no move for
\* a piece of the opponent or a piece with a block resting on it.
C25_RetrievalsEnumerated ==
    RetrievalPhase(board) =>
        LET p == 1 - Last(board.move_history).player
            E == {k \in PiecesOf(board, p) : Exposed(board, k)}
        IN \A ot \in BOOLEAN :
              /\ get_legal_move(board, ot) = {RetrievalOf(board, p, k) : k \in E}
              /\ Cardinality(get_legal_move(board, ot)) = Cardinality(E)

\* the mover must retrieve, one of their pieces is exposed, another has a
\* block resting on one of its two blocks only, and an opponent piece is exposed
C25_Witness ==
    /\ RetrievalPhase(board)
    /\ LET p == 1 - Last(board.move_history).player
       IN /\ \E k \in PiecesOf(board, p) : Exposed(board, k)
          /\ \E k \in PiecesOf(board, p) :
                Covered(board, 2 * k) # Covered(board, 2 * k + 1)
          /\ \E k \in PiecesOf(board, 1 - p) : Exposed(board, k)

\* the opponent's placement that __calc_value probes for the candidate m
OpponentProbe(m) == Move((m.player + 1) % 2, m.x, m.y, m.dir, FALSE)

\* C26: get_legal_move(calc_value = True) leaves block coordinates, column
\* heights, adjacency table, move counter and move history as they were, in
\* the placement and in the retrieval phase and also when the probe of the
\* opponent's move is rejected, and returns the moves of
\* get_legal_move(calc_value = False), compared on player, x, y, direction, isGet.
C26_ScoringLeavesBoard ==
    \A ot \in BOOLEAN :
        /\ valued_legal_ok(board, ot)
        /\ valued_legal_board(board, ot) = board
        /\ \A m \in get_legal_move(board, ot) : calc_value(board, m).board = board
        /\ {<<m.player, m.x, m.y, m.dir, m.is_get>> : m \in valued_legal_move(board, ot)}
             = {<<m.player, m.x, m.y, m.dir, m.is_get>> : m \in get_legal_move(board, ot)}

\* a placement right after a retrieval is scored: the candidate is put on the
\* board and taken off again, and the probe of the opponent's move is rejected
\* because the opponent has no unplaced piece
C26_Witness ==
    /\ Len(board.move_history) > 0
    /\ Last(board.move_history).is_get
    /\ \E m \in get_legal_move(board, FALSE) :
          /\ ~m.is_get
          /\ move(board, m).touch # board.touch
          /\ ~HasUnplaced(board, 1 - m.player)
          /\ ~move_ok(board, OpponentProbe(m))
          /\ calc_value(board, m).ok

\* applying the placement m to b is accepted and makes judge return a player
WinsAt(b, m) == move_ok(b, m) /\ judge(move(b, m)) \in {0, 1}

\* C27: a placement candidate has a heuristic value >= 10000 exactly when
\* applying it makes judge return a player, or the opponent's placement at the
\* same x, y and direction does.
C27_BonusIffWin ==
    \A ot \in BOOLEAN : \A m \in get_legal_move(board, ot) :
        ~m.is_get =>
            ((calc_value(board, m).value >= 10000)
                <=> (WinsAt(board, m) \/ WinsAt(board, OpponentProbe(m))))

\* the number of placement and pass entries in the move history of b
PlacementsAndPasses(b) ==
    Cardinality({k \in 1 .. Len(b.move_history) :
                    b.move_history[k].is_pass \/ ~b.move_history[k].is_get})

\* C32: after any sequence of move (legal moves and passes) and move_cancel
\* the move counter is the number of placement and pass entries in the move
\* history; retrievals are in the history but not in the counter, so judge
\* gives a draw only when placements and passes have reached the ceiling.
C32_CounterCountsPlacements ==
    /\ board.board_n = PlacementsAndPasses(board)
    /\ judge(board) = DRAW => PlacementsAndPasses(board) >= board.max_n
    /\ judge(board) = NONE => PlacementsAndPasses(board) < board.max_n

\* a history with a placement, a retrieval and a pass: longer than the counter
C32_Witness ==
    /\ \E k \in 1 .. Len(board.move_history) :
          board.move_history[k].is_get /\ ~board.move_history[k].is_pass
    /\ \E k \in 1 .. Len(board.move_history) : board.move_history[k].is_pass
    /\ Len(board.move_history) > board.board_n
    /\ board.board_n >= 2
    /\ Last(board.move_history).is_get
    /\ move_cancel(board).board_n = board.board_n

(* ------------------------------------------------------------------ *)
(* Scenario A on the default Board (checked under SpecScenario)        *)
(* ------------------------------------------------------------------ *)
\* player 0 has placed (0, 0, Y) and player 1 (5, 5, Z) on the empty default Board
ScenarioA ==
    board.move_history = <<Move(0, 0, 0, 1, FALSE), Move(1, 5, 5, 2, FALSE)>>

\* no placement returned by get_legal_move has target columns of different heights
NoFloating(b, only_touch) ==
    \A m \in get_legal_move(b, only_touch) :
        ~m.is_get =>
            b.max_z[m.y][m.x] = b.max_z[m.y + DIRECTION[m.dir + 1][2]][m.x + DIRECTION[m.dir + 1][1]]

\* two move_cancel calls are accepted and give the empty default Board
TwoCancelsEmpty(b) ==
    /\ move_cancel_ok(b)
    /\ move_cancel_ok(move_cancel(b))
    /\ move_cancel(move_cancel(b)) = DefaultBoard

\* C18 (as amended): in Scenario A get_legal_move does not include the
\* placement (5, 5, X), whose columns (5, 5) and (6, 5) are 2 and 0 high,
\* contains no floating placement, and two move_cancel calls give back the
\* empty Board exactly.
C18_ScenarioA ==
    ScenarioA =>
        /\ \A ot \in BOOLEAN : Move(0, 5, 5, 0, FALSE) \notin get_legal_move(board, ot)
        /\ board.max_z[5][5] = 2 /\ board.max_z[5][6] = 0
        /\ \A ot \in BOOLEAN : NoFloating(board, ot)
        /\ TwoCancelsEmpty(board)

\* C18 (as stated): in Scenario A get_legal_move includes the placement
\* (5, 5, X) and contains no floating placement, and two move_cancel calls give
\* back the empty Board exactly.
C18_ScenarioAIncludesX ==
    ScenarioA =>
        /\ Move(0, 5, 5, 0, FALSE) \in get_legal_move(board, FALSE)
        /\ \A ot \in BOOLEAN : NoFloating(board, ot)
        /\ TwoCancelsEmpty(board)

\* Scenario A is reached; player 0 may place on top of the Z piece and on the
\* ground next to its own piece
C18_Witness ==
    /\ ScenarioA
    /\ board.board_n = 2
    /\ Move(0, 5, 5, 2, FALSE) \in get_legal_move(board, FALSE)
    /\ Move(0, 1, 0, 1, FALSE) \in get_legal_move(board, TRUE)

(* ------------------------------------------------------------------ *)
(* Properties of the search tree and of UCT_MCTS (checked under Spec)  *)
(* ------------------------------------------------------------------ *)
Nodes == 1 .. Len(nodes)

\* the nodes whose board slot is not None
BoardHolders == {n \in Nodes : nodes[n].board # "None"}

\* C2: at every step exactly one node of the tree holds a Board, every other
\* board slot is None, and the Board held is the one the root created (the
\* root is the only node that ever creates one).
C2_SingleBoardHolder ==
    /\ Cardinality(BoardHolders) = 1
    /\ \A n \in BoardHolders : nodes[n].board = "Board"
    /\ {n \in Nodes : nodes[n].parent = 0} = {state_root}

\* during a search below a decided node the Board sits two or more levels
\* under the root, on the node in process
C2_Witness ==
    /\ n_decide >= 1
    /\ pc = "backup"
    /\ state_in_process # state_now
    /\ BoardHolders = {state_in_process}
    /\ nodes[state_in_process].n_state >= 2

\* a step of __select that moves the cursor to a child
SelectDescends ==
    /\ pc = "select"
    /\ pc' = "select"
    /\ state_in_process' # state_in_process

HasUnvisitedChild(nds, s) ==
    \E i \in 1 .. Len(nds[s].children) : nds[nds[s].children[i]].playout_result[1] = 0

\* C8: when __select descends from a node that has a child without playouts,
\* the child it descends into has no positive UCB1 value.
C8_UnvisitedBeforePositive ==
    [][(SelectDescends /\ HasUnvisitedChild(nodes, state_in_process))
          => calc_UCB1(nodes, state_in_process') <= 0]_vars

\* __select has just descended into a child without playouts although a
\* sibling has a positive UCB1 value
C8_Witness ==
    /\ pc = "select"
    /\ state_in_process # state_now
    /\ nodes[state_in_process].playout_result[1] = 0
    /\ BoardHolders = {state_in_process}
    /\ LET sib == nodes[nodes[state_in_process].parent].children
       IN \E i \in 1 .. Len(sib) : calc_UCB1(nodes, sib[i]) > 0

\* C9: as long as no decide or decide_manually was called, no node has more
\* than N_CHILD children and the root, still the confirmed node, has the
\* playout result (0, 0, 0).
C9_FreshEngineShape ==
    n_decide = 0 =>
        /\ state_now = state_root
        /\ \A n \in Nodes : Len(nodes[n].children) <= N_CHILD
        /\ nodes[state_root].playout_result = <<0, 0, 0>>

\* iterations were run on the fresh engine: the root has N_CHILD children and
\* the search expanded a node below it
C9_Witness ==
    /\ n_decide = 0
    /\ n_iter >= 2
    /\ pc = "idle"
    /\ err = ""
    /\ Len(nodes[state_root].children) = N_CHILD
    /\ \E n \in Nodes \ {state_root} :
          /\ ~is_leaf(nodes, n)
          /\ nodes[n].playout_result[1] >= 1

RECURSIVE PathUp(_, _, _)
\* the nodes from s up to the child of stop, by the parent links
PathUp(nds, s, stop) ==
    IF s = 0 \/ s = stop THEN {}
    ELSE {s} \cup PathUp(nds, nds[s].parent, stop)

RECURSIVE IsBelow(_, _, _)
\* s is a strict descendant of a
IsBelow(nds, s, a) ==
    IF s = 0 \/ nds[s].parent = 0 THEN FALSE
    ELSE nds[s].parent = a \/ IsBelow(nds, nds[s].parent, a)

\* the step on which __backup, and with it do_mcts, returns
IterationReturns == pc = "backup" /\ pc' = "idle"

\* the playout result node n had when do_mcts was called
BaseResult(n) == IF n <= Len(iter_base) THEN iter_base[n] ELSE <<0, 0, 0>>

\* C10: when do_mcts returns, the cursor is on the confirmed node, the leaf
\* __select stopped on lies below it, every node on the path from that leaf up
\* to the child of the confirmed node has the playout triple added to the
\* result it had when do_mcts was called, and every other node has the result
\* it had then.
C10_BackupFrame ==
    [][IterationReturns =>
          /\ state_in_process = state_now
          /\ state_in_process' = state_now'
          /\ IsBelow(nodes, leaf, state_now)
          /\ \A n \in Nodes :
                nodes'[n].playout_result =
                    Vadd(BaseResult(n),
                         IF n \in PathUp(nodes, leaf, state_now) THEN result ELSE <<0, 0, 0>>)]_vars

\* __backup is about to return after it walked up two or more nodes with a
\* playout that had a winner
C10_Witness ==
    /\ pc = "backup"
    /\ state_in_process = state_now
    /\ Cardinality(PathUp(nodes, leaf, state_now)) >= 2
    /\ result[2] + result[3] = 1
    /\ n_decide >= 1

\* the step on which __playout returns its result to __evaluate
PlayoutReturns == pc = "evaluate" /\ pc' = "backup"

\* the moves the last playout played, read from the Board at the end of its loop
PlayoutMoves ==
    SubSeq(playout_board.move_history, Len(board.move_history) + 1,
           Len(playout_board.move_history))

\* C11: a playout that returns leaves the Board as it found it: block
\* coordinates, column heights, adjacency table, move counter and move history
\* are those of the Board at the call, whatever moves the playout played and
\* whether it stopped on a judged result or on the depth cap.
C11_PlayoutRestores ==
    [][PlayoutReturns => board' = board]_vars

\* a playout has returned that played a retrieval, stopped on the depth cap
\* with no result judged, and left none of its moves on the Board
C11_Witness ==
    /\ pc = "backup"
    /\ state_in_process = leaf
    /\ playout_board # << >>
    /\ Len(playout_board.move_history) > Len(board.move_history)
    /\ board.move_history = SubSeq(playout_board.move_history, 1, Len(board.move_history))
    /\ \E k \in 1 .. Len(PlayoutMoves) : PlayoutMoves[k].is_get
    /\ judge(playout_board) = NONE
    /\ playout_board.block_xyz # board.block_xyz

\* __select stopped on a leaf that __expand is to expand and that has no legal
\* move: gen_children adds nothing, __expand answers True and the loop of
\* do_mcts (lines 75-78) repeats in the same state
SelectExpandSpins ==
    /\ pc = "expand"
    /\ err = ""
    /\ expand_cond(nodes, state_in_process, state_now)
    /\ nodes[state_in_process].board # "None"
    /\ is_leaf(nodes, state_in_process)
    /\ get_legal_move(board, FALSE) = {}

\* C12: a started iteration completes: no step of do_mcts raises and the
\* select / expand loop never reaches a state in which it repeats for ever.
C12_IterationCompletes ==
    /\ pc # "idle" => err = ""
    /\ ~SelectExpandSpins

\* x, y, direction, player, isGet and isPass of a Move
MoveKey(m) == <<m.x, m.y, m.dir, m.player, m.is_get, m.is_pass>>

\* m is the move of no child of the confirmed node and of no legal move on the
\* Board held
Unmatched(m) ==
    /\ \A i \in 1 .. Len(nodes[state_now].children) :
          MoveKey(nodes[nodes[state_now].children[i]].move_data) # MoveKey(m)
    /\ \A cm \in get_legal_move(board, FALSE) : MoveKey(cm) # MoveKey(m)

\* C14: decide_manually(m) with a move that matches no child of the confirmed
\* node and no legal move raises, and leaves the confirmed node, every node
\* (child lists and board slots) and the Board as they were.
C14_UnmatchedMoveRaises ==
    [][\A m \in ManualMoves :
          (Unmatched(m) /\ DecideManuallyWith(m))
          => /\ err' = "AmbiguousMove"
             /\ state_now' = state_now
             /\ nodes' = nodes
             /\ board' = board]_vars

\* decide_manually has raised on an unmatched move at a confirmed node below
\* the root that has children and holds the Board
C14_Witness ==
    /\ err = "AmbiguousMove"
    /\ state_now # state_root
    /\ ~is_leaf(nodes, state_now)
    /\ BoardHolders = {state_now}
    /\ \E m \in ManualMoves : Unmatched(m)

\* the step on which decide returns a child index
DecideReturns == n_decide' = n_decide + 1 /\ err' = "" /\ decided_i' > 0

\* the children of the confirmed node
NowChildren == {nodes[state_now].children[i] : i \in 1 .. Len(nodes[state_now].children)}

\* the player whose move the children of the confirmed node carry
Mover == nodes[nodes[state_now].children[1]].move_data.player

\* totalPlayouts + wins of player p - wins of the other player, at node n
AdjustedCount(n, p) ==
    nodes[n].playout_result[1] + nodes[n].playout_result[p + 2] - nodes[n].playout_result[(1 - p) + 2]

\* the move of node n carries the forced-win signal
ForcedWin(n) == nodes[n].move_data.value >= 10000

\* C15: when no child of the confirmed node carries the forced-win signal,
\* decide returns a child whose adjusted count is maximal among all children.
C15_DecideMaximalCount ==
    [][(DecideReturns /\ \A n \in NowChildren : ~ForcedWin(n))
          => \A n \in NowChildren :
                AdjustedCount(n, Mover) <= AdjustedCount(nodes[state_now].children[decided_i'], Mover)]_vars

C17_PlayoutTriple ==
    [][PlayoutReturns =>
          /\ result' = <<1, IF judge(playout_board') = 0 THEN 1 ELSE 0,
                            IF judge(playout_board') = 1 THEN 1 ELSE 0>>
          /\ result'[2] + result'[3] <= 1
          /\ judge(playout_board') \in {DRAW, NONE} => result' = <<1, 0, 0>>]_vars

\* a playout has returned that ended in a draw at the move-count ceiling
C17_Witness ==
    /\ pc = "backup"
    /\ state_in_process = leaf
    /\ playout_board # << >>
    /\ Len(playout_board.move_history) > Len(board.move_history)
    /\ judge(playout_board) = DRAW
    /\ result = <<1, 0, 0>>

\* the largest UCB1 value among the children of node s
MaxUCB1(nds, s) ==
    Max({calc_UCB1(nds, nds[s].children[i]) : i \in 1 .. Len(nds[s].children)})

\* C19: when __select descends from a node that has a child without playouts,
\* it descends into a child without playouts; when every child has a playout,
\* it descends into a child of maximal UCB1.
C19_UnvisitedChosen ==
    [][SelectDescends =>
          IF HasUnvisitedChild(nodes, state_in_process)
          THEN nodes[state_in_process'].playout_result[1] = 0
          ELSE calc_UCB1(nodes, state_in_process') = MaxUCB1(nodes, state_in_process)]_vars

\* __expand is called on a node that is not the confirmed node and whose wins
\* and losses together are below EXPAND_THRESHOLD
BelowThreshold ==
    /\ pc = "expand"
    /\ state_in_process # state_now
    /\ nodes[state_in_process].playout_result[2] + nodes[state_in_process].playout_result[3]
          < EXPAND_THRESHOLD

\* C20 (as amended): when the leaf __select reached is not the confirmed node
\* and its wins and losses together are below EXPAND_THRESHOLD, expansion is
\* skipped (no node is created, the Board is untouched) and the iteration
\* goes on to one playout from that leaf; when the iteration returns, the
\* playout triple (1, a, b) has been added to that leaf, and no node off the
\* path from the leaf to the child of the confirmed node has changed.
C20_SkippedExpansionPlaysOut ==
    [][/\ BelowThreshold =>
             /\ pc' = "evaluate"
             /\ nodes' = nodes
             /\ board' = board
             /\ state_in_process' = state_in_process
       /\ IterationReturns =>
             /\ result[1] = 1
             /\ nodes'[leaf].playout_result = Vadd(BaseResult(leaf), result)
             /\ BaseResult(leaf)[2] + BaseResult(leaf)[3] < EXPAND_THRESHOLD
             /\ \A n \in Nodes \ PathUp(nodes, leaf, state_now) :
                   nodes'[n].playout_result = BaseResult(n)]_vars

\* C20 (as stated): in such an iteration no playout result is added to any
\* node: when the iteration returns every node has the playout result it had
\* when do_mcts was called.
C20_SkippedExpansionZeroEffect ==
    [][(/\ IterationReturns
        /\ leaf # state_now
        /\ BaseResult(leaf)[2] + BaseResult(leaf)[3] < EXPAND_THRESHOLD)
          => \A n \in Nodes : nodes'[n].playout_result = BaseResult(n)]_vars

\* expansion was skipped on a leaf that already had a playout, but no win or
\* loss, and the playout from it is about to run
C20_Witness ==
    /\ pc = "evaluate"
    /\ err = ""
    /\ leaf = state_in_process
    /\ state_in_process # state_now
    /\ is_leaf(nodes, leaf)
    /\ nodes[leaf].playout_result[1] >= 1
    /\ nodes[leaf].playout_result[2] + nodes[leaf].playout_result[3] < EXPAND_THRESHOLD

\* C21: every node with at least one child is a confirmed node or has
\* wins + losses >= EXPAND_THRESHOLD: children are generated for the confirmed
\* node or a node that reached the threshold only (__expand), and
\* select_child_move appends a child to the confirmed node only.
C21_ChildrenOnlyWhereExpanded ==
    \A n \in Nodes :
        ~is_leaf(nodes, n) =>
            \/ nodes[n].confirmed
            \/ nodes[n].playout_result[2] + nodes[n].playout_result[3] >= EXPAND_THRESHOLD

\* after a decide / decide_manually, a node that was never confirmed has
\* children, and a leaf that is not confirmed and below the threshold exists
C21_Witness ==
    /\ n_decide >= 1
    /\ err = ""
    /\ \E n \in Nodes : ~is_leaf(nodes, n) /\ ~nodes[n].confirmed
    /\ \E n \in Nodes :
          /\ is_leaf(nodes, n) /\ ~nodes[n].confirmed
          /\ nodes[n].playout_result[1] >= 1
          /\ nodes[n].playout_result[2] + nodes[n].playout_result[3] < EXPAND_THRESHOLD

\* the Board the returning playout stood on after its k-th move
PlayoutBoardAfter(k) ==
    cancel_n(playout_board', Len(playout_board'.move_history) - Len(board.move_history) - k).board

\* C22: a playout applies at most PLAYOUT_STOP moves to the Board before it
\* undoes them, and applies no move after judge returned a player or a draw.
C22_PlayoutDepthCap ==
    [][PlayoutReturns =>
          LET played == Len(playout_board'.move_history) - Len(board.move_history)
          IN /\ played <= PLAYOUT_STOP
             /\ \A k \in 1 .. played - 1 : judge(PlayoutBoardAfter(k)) = NONE]_vars

\* the step on which __expand returns True: gen_children(N_CHILD) was called
\* on the node in process
GenChildrenReturns == pc = "expand" /\ pc' = "select"

\* the moves carried by the children of node s
ChildMoves(nds, s) == {nds[nds[s].children[i]].move_data : i \in 1 .. Len(nds[s].children)}

\* C28: gen_children(k) on a childless node whose Board has L legal moves
\* creates min(k, L) children with distinct legal moves of that Board, and no
\* legal move left out has a larger heuristic value than a chosen one; on a
\* node with children it creates nothing.  Either way the Board and the
\* holder of the Board stay as they were.
C28_GenChildren ==
    [][GenChildrenReturns =>
          LET s == state_in_process
              L == valued_legal_move(board, FALSE)
              chosen == ChildMoves(nodes', s)
          IN /\ board' = board
             /\ \A n \in Nodes : /\ nodes'[n].board = nodes[n].board
                                 /\ nodes'[n].parent = nodes[n].parent
                                 /\ n # s => nodes'[n].children = nodes[n].children
             /\ IF is_leaf(nodes, s)
                THEN /\ Len(nodes'[s].children) = Min({N_CHILD, Cardinality(L)})
                     /\ Cardinality(chosen) = Len(nodes'[s].children)
                     /\ chosen \subseteq L
                     /\ {MoveKey(m) : m \in chosen} \subseteq
                            {MoveKey(m) : m \in get_legal_move(board, FALSE)}
                     /\ \A m \in L \ chosen : \A c \in chosen : m.value <= c.value
                     /\ Len(nodes') = Len(nodes) + Len(nodes'[s].children)
                     /\ \A i \in 1 .. Len(nodes'[s].children) :
                           LET c == nodes'[s].children[i]
                           IN /\ c > Len(nodes)
                              /\ nodes'[c].parent = s
                              /\ nodes'[c].board = "None"
                              /\ is_leaf(nodes', c)
                ELSE nodes' = nodes]_vars

\* gen_children has just given a node below the root N_CHILD children and
\* left out a legal move of smaller value
C28_Witness ==
    /\ pc = "select"
    /\ err = ""
    /\ state_in_process # state_root
    /\ nodes[state_in_process].board = "Board"
    /\ Len(nodes[state_in_process].children) = N_CHILD
    /\ \A c \in Nodes : nodes[c].parent = state_in_process => c > Len(nodes) - N_CHILD
    /\ \E m \in valued_legal_move(board, FALSE) \ ChildMoves(nodes, state_in_process) :
          \E c \in ChildMoves(nodes, state_in_process) : m.value < c.value

\* no node has two children whose moves agree on x, y, direction, player,
\* isGet and isPass
NoTwinChildren(nds) ==
    \A n \in 1 .. Len(nds) : \A i, j \in 1 .. Len(nds[n].children) :
        i # j => MoveKey(nds[nds[n].children[i]].move_data)
                   # MoveKey(nds[nds[n].children[j]].move_data)

\* the children of the confirmed node whose move agrees with m on the six fields
AgreeingChildren(m) == {c \in NowChildren : MoveKey(nodes[c].move_data) = MoveKey(m)}

\* C29: select_child_move(m) on the confirmed node holding the Board: if m
\* agrees with a child's move on x, y, direction, player, isGet and isPass,
\* whatever the values, that child is descended into and no child is added;
\* otherwise, if m agrees with a legal move of the Board, one new child is
\* appended and descended into.  In both cases the child's move is applied to
\* the Board and the Board is handed to the child.  No node ever has two
\* children whose moves agree on the six fields.
C29_SelectChildMove ==
    [][/\ NoTwinChildren(nodes) /\ NoTwinChildren(nodes')
       /\ \A m \in ManualMoves :
             (/\ DecideManuallyWith(m)
              /\ nodes[state_now].board = "Board"
              /\ ~Unmatched(m))
             => /\ err' = ""
                /\ MoveKey(nodes'[state_now'].move_data) = MoveKey(m)
                /\ IF AgreeingChildren(m) # {}
                   THEN /\ state_now' \in AgreeingChildren(m)
                        /\ Len(nodes') = Len(nodes)
                        /\ nodes'[state_now].children = nodes[state_now].children
                   ELSE /\ state_now' = Len(nodes) + 1
                        /\ Len(nodes') = Len(nodes) + 1
                        /\ nodes'[state_now].children
                             = Append(nodes[state_now].children, state_now')
                        /\ nodes'[state_now'].parent = state_now
                /\ board' = move(board, nodes'[state_now'].move_data)
                /\ nodes'[state_now'].board = "Board"
                /\ nodes'[state_now].board = "None"]_vars

\* decide_manually first matched a child of the root that gen_children had
\* created with a heuristic value, and then appended a new child for a legal
\* move that matched no child
C29_Witness ==
    /\ err = ""
    /\ n_decide = 2
    /\ decided_i = 0
    /\ nodes[state_now].board = "Board"
    /\ nodes[state_now].move_data.value = 0
    /\ nodes[state_now].parent # 0
    /\ LET p == nodes[state_now].parent
       IN /\ nodes[p].parent = state_root
          /\ nodes[p].move_data.value # 0
          /\ nodes[p].confirmed
          /\ Last(nodes[p].children) = state_now

\* the nodes whose confirmed flag is set
Confirmed(nds) == {n \in 1 .. Len(nds) : nds[n].confirmed}

RECURSIVE RootPath(_, _)
\* node s and its ancestors up to the root
RootPath(nds, s) == IF s = 0 THEN {} ELSE {s} \cup RootPath(nds, nds[s].parent)

\* C30: the nodes with confirmed = true are exactly the path from the root to
\* the current confirmed node; no step of do_mcts changes a confirmed flag or
\* the confirmed node; a decide / decide_manually that returns moves the
\* confirmed node to one of its children (for decide the child at the returned
\* index) and marks it confirmed, changing no other flag.
C30_ConfirmedPath ==
    [][/\ Confirmed(nodes) = RootPath(nodes, state_now)
       /\ Confirmed(nodes') = RootPath(nodes', state_now')
       /\ (pc # "idle" \/ pc' # "idle") =>
             /\ state_now' = state_now
             /\ \A n \in Nodes : nodes'[n].confirmed = nodes[n].confirmed
             /\ \A n \in 1 .. Len(nodes') : n > Len(nodes) => ~nodes'[n].confirmed
       /\ (n_decide' = n_decide + 1 /\ err' = "") =>
             /\ state_now' # state_now
             /\ nodes'[state_now'].parent = state_now
             /\ \E i \in 1 .. Len(nodes'[state_now].children) :
                   nodes'[state_now].children[i] = state_now'
             /\ decided_i' > 0 => state_now' = nodes[state_now].children[decided_i']
             /\ nodes'[state_now'].confirmed
             /\ Confirmed(nodes') = Confirmed(nodes) \cup {state_now'}
       /\ (n_decide' = n_decide + 1 /\ err' # "") =>
             /\ state_now' = state_now
             /\ Confirmed(nodes') = Confirmed(nodes)]_vars

\* after searches, a decide and a decide_manually: three confirmed nodes in a
\* chain, beside unconfirmed siblings, one of which has children
C30_Witness ==
    /\ pc = "idle"
    /\ err = ""
    /\ n_decide = 2
    /\ n_iter >= 2
    /\ Cardinality(Confirmed(nodes)) = 3
    /\ nodes[nodes[state_now].parent].parent = state_root
    /\ \E n \in Nodes : ~nodes[n].confirmed /\ ~is_leaf(nodes, n)
    /\ \E n \in Nodes : ~nodes[n].confirmed /\ nodes[n].parent = nodes[state_now].parent

RECURSIVE PathMoves(_, _)
\* the moves carried by the nodes on the path from the root down to node s
PathMoves(nds, s) ==
    IF nds[s].parent = 0 THEN << >>
    ELSE Append(PathMoves(nds, nds[s].parent), nds[s].move_data)

\* C31: while no exception has ended the program, one node holds the Board
\* and the move history is the sequence of moves on the path from the root to
\* that node, as long as the node's depth; between the calls of do_mcts,
\* decide and decide_manually that node is the confirmed node, inside do_mcts
\* (between the steps of descent, expansion, playout and ascent) it is the
\* node in process.
C31_HistoryIsPath ==
    err = "" =>
        /\ BoardHolders = {IF pc = "idle" THEN state_now ELSE state_in_process}
        /\ \A h \in BoardHolders :
              /\ board.move_history = PathMoves(nodes, h)
              /\ Len(board.move_history) = nodes[h].n_state

\* inside an iteration below a confirmed node that is not the root: the Board
\* is two or more moves deep, held by the node in process on its way up
C31_Witness ==
    /\ err = ""
    /\ pc = "backup"
    /\ state_now # state_root
    /\ state_in_process # state_now
    /\ BoardHolders = {state_in_process}
    /\ nodes[state_in_process].n_state >= 2
    /\ Len(board.move_history) >= 2
    /\ board.move_history = PathMoves(nodes, state_in_process)

====
